---- MODULE Spec2Model ----
(***************************************************************************)
(* Model of the SQLite cache engine of the NOMAD threat-intelligence       *)
(* framework: src/src/cache/database.py (CacheDatabase), the record types  *)
(* of src/src/cache/models.py and the per-record import step of            *)
(* src/src/cache/migrations.py.                                            *)
(*                                                                         *)
(* Representation.  A Python str / SQLite TEXT value that the code         *)
(* tokenizes, serializes or compares is a sequence of one-character        *)
(* strings; None / NULL of an Optional field is the empty sequence <<>>    *)
(* and a present value v is <<v>>; a float is an integer (scores are       *)
(* scaled by ten); a datetime is a number of clock ticks.                  *)
(***************************************************************************)
EXTENDS Integers, Sequences, FiniteSets, TLC

VARIABLES threats, threats_fts, cve_cache, verification_cache, feed_metrics,
          now, ret, conns, call, sqlite_master, sessions

vars == <<threats, threats_fts, cve_cache, verification_cache, feed_metrics,
          now, ret, conns, call, sqlite_master, sessions>>

(***************************************************************************)
(* Bounds of the model.                                                    *)
(***************************************************************************)
\* last tick the wall clock reaches
MaxTime == 4
\* clock ticks per second (the resolution of datetime.utcnow() below a second)
TicksPerSecond == 2
\* seconds per hour of TTL, compressed
SecondsPerHour == 1
\* largest rowid the threats table hands out
MaxRowid == 3

None == <<>>

Some(v) == <<v>>

(***************************************************************************)
(* Text helpers.                                                           *)
(***************************************************************************)
DigitChars == <<"0", "1", "2", "3", "4", "5", "6", "7", "8", "9">>

Digit(n) == DigitChars[n + 1]

DigitVal(c) == CHOOSE n \in 0..9 : DigitChars[n + 1] = c

\* byte value of the characters that occur in stored timestamps
CharCode(c) == IF c = "." THEN 46 ELSE 48 + DigitVal(c)

\* SQLite's BINARY collation on TEXT: memcmp, then the shorter string first
RECURSIVE TextLess(_, _)
TextLess(a, b) ==
    IF b = <<>> THEN FALSE
    ELSE IF a = <<>> THEN TRUE
    ELSE IF CharCode(Head(a)) # CharCode(Head(b))
         THEN CharCode(Head(a)) < CharCode(Head(b))
         ELSE TextLess(Tail(a), Tail(b))

\* datetime.isoformat(): the whole seconds at fixed width, and the fraction
\* only when it is not zero
IsoFormat(t) ==
    LET sec == t \div TicksPerSecond
        frac == t % TicksPerSecond
    IN  <<Digit(sec \div 10), Digit(sec % 10)>>
            \o (IF frac = 0 THEN <<>> ELSE <<".", Digit(frac)>>)

\* datetime.fromisoformat()
FromIsoFormat(s) ==
    (DigitVal(s[1]) * 10 + DigitVal(s[2])) * TicksPerSecond
        + (IF Len(s) > 2 THEN DigitVal(s[4]) ELSE 0)

\* SQLite CURRENT_TIMESTAMP: whole seconds only
CurrentTimestamp(t) ==
    LET sec == t \div TicksPerSecond
    IN  <<Digit(sec \div 10), Digit(sec % 10)>>

\* timedelta(hours=h) in ticks
Hours(h) == h * SecondsPerHour * TicksPerSecond

RECURSIVE JoinQuoted(_)
JoinQuoted(list) ==
    IF list = <<>> THEN <<>>
    ELSE <<"\"">> \o Head(list) \o <<"\"">>
            \o (IF Tail(list) = <<>> THEN <<>> ELSE <<",", " ">>)
            \o JoinQuoted(Tail(list))

\* json.dumps of a list of str
JsonDumps(list) == <<"[">> \o JoinQuoted(list) \o <<"]">>

RECURSIVE JsonScan(_, _, _, _)
JsonScan(s, inStr, cur, acc) ==
    IF s = <<>> THEN acc
    ELSE IF Head(s) = "\""
         THEN IF inStr THEN JsonScan(Tail(s), FALSE, <<>>, Append(acc, cur))
                       ELSE JsonScan(Tail(s), TRUE, <<>>, acc)
         ELSE IF inStr THEN JsonScan(Tail(s), TRUE, Append(cur, Head(s)), acc)
                       ELSE JsonScan(Tail(s), FALSE, cur, acc)

\* json.loads of a serialized list of str
JsonLoads(s) == JsonScan(s, FALSE, <<>>, <<>>)

\* Python's `x or d` on a str or a number
OrStr(v, d) == IF v = "" THEN d ELSE v

OrNum(v, d) == IF v = 0 THEN d ELSE v

\* Python's `x or d` on a value read from a nullable numeric column
OrText(v, d) == IF v = <<>> THEN d ELSE v

(***************************************************************************)
(* Threat records (models.py) and the inputs of upsert_threat.             *)
(***************************************************************************)
ThreatIds == {<<"t", "1">>, <<"t", "2">>}

ThreatFieldNames ==
    {"id", "source_type", "source_name", "source_url", "title", "summary",
     "published_utc", "collected_utc", "cves", "cvss_v3", "epss_score",
     "epss_percentile", "kev_listed", "exploit_status",
     "admiralty_source_reliability", "admiralty_info_credibility",
     "priority_level", "risk_score", "verification_confidence",
     "verification_method", "verification_timestamp",
     "affected_crown_jewels", "asset_exposure_match", "dedupe_key",
     "search_content"}

\* a ThreatRecord with the dataclass defaults
ThreatRecord(id) ==
    [id |-> id, source_type |-> "rss", source_name |-> <<"s">>,
     source_url |-> "", title |-> <<"a", "b">>, summary |-> <<>>,
     published_utc |-> 0, collected_utc |-> 0, cves |-> <<>>,
     cvss_v3 |-> None, epss_score |-> None, epss_percentile |-> None,
     kev_listed |-> FALSE, exploit_status |-> None,
     admiralty_source_reliability |-> "C", admiralty_info_credibility |-> 3,
     priority_level |-> "medium", risk_score |-> 0,
     verification_confidence |-> None, verification_method |-> None,
     verification_timestamp |-> None,
     affected_crown_jewels |-> <<>>, asset_exposure_match |-> <<>>,
     dedupe_key |-> "", search_content |-> <<>>]

\* a second valid value for every field
OtherValue ==
    [id |-> <<"t", "1">>, source_type |-> "cert", source_name |-> <<"b">>,
     source_url |-> "u", title |-> <<"a", " ", "b">>, summary |-> <<"a">>,
     published_utc |-> 3, collected_utc |-> 2, cves |-> << <<"c", "1">> >>,
     cvss_v3 |-> Some(0), epss_score |-> Some(8), epss_percentile |-> Some(0),
     kev_listed |-> TRUE, exploit_status |-> Some(""),
     admiralty_source_reliability |-> "A", admiralty_info_credibility |-> 1,
     priority_level |-> "critical", risk_score |-> 95,
     verification_confidence |-> Some(0), verification_method |-> Some("jina"),
     verification_timestamp |-> Some(1),
     affected_crown_jewels |-> << <<"a">>, <<"b">> >>,
     asset_exposure_match |-> << <<"a">> >>,
     dedupe_key |-> "k", search_content |-> <<"a", "b">>]

\* the default record and every record that differs from it in one field
ThreatVariants(id) ==
    {ThreatRecord(id)} \cup
    {[ThreatRecord(id) EXCEPT ![f] = OtherValue[f]] :
        f \in ThreatFieldNames \ {"id"}}

(***************************************************************************)
(* The threats table and its full-text index (database.py, _init_db).      *)
(***************************************************************************)
\* the parameter tuple bound to the INSERT of upsert_threat
ThreatParams(threat) ==
    [id |-> threat.id, source_type |-> threat.source_type,
     source_name |-> threat.source_name, source_url |-> threat.source_url,
     title |-> threat.title, summary |-> threat.summary,
     published_utc |-> IsoFormat(threat.published_utc),
     collected_utc |-> IsoFormat(threat.collected_utc),
     cves |-> JsonDumps(threat.cves),
     cvss_v3 |-> threat.cvss_v3, epss_score |-> threat.epss_score,
     epss_percentile |-> threat.epss_percentile,
     kev_listed |-> IF threat.kev_listed THEN 1 ELSE 0,
     exploit_status |-> threat.exploit_status,
     admiralty_source_reliability |-> threat.admiralty_source_reliability,
     admiralty_info_credibility |-> threat.admiralty_info_credibility,
     priority_level |-> threat.priority_level,
     risk_score |-> threat.risk_score,
     verification_confidence |-> threat.verification_confidence,
     verification_method |-> threat.verification_method,
     verification_timestamp |->
        IF threat.verification_timestamp # None
        THEN Some(IsoFormat(threat.verification_timestamp[1])) ELSE None,
     affected_crown_jewels |-> JsonDumps(threat.affected_crown_jewels),
     asset_exposure_match |-> JsonDumps(threat.asset_exposure_match),
     dedupe_key |-> threat.dedupe_key]

ThreatColumns == ThreatFieldNames \ {"search_content"}

\* the columns assigned by ON CONFLICT(id) DO UPDATE SET
ConflictColumns ==
    {"source_type", "source_name", "source_url", "title", "summary", "cves",
     "cvss_v3", "epss_score", "epss_percentile", "kev_listed",
     "exploit_status", "priority_level", "risk_score",
     "verification_confidence", "verification_method",
     "verification_timestamp", "affected_crown_jewels",
     "asset_exposure_match"}

RowFields == ThreatColumns \cup {"rowid", "created_at", "updated_at"}

\* rowid of a new row of a rowid table: one more than the largest in use
NextRowid(table) ==
    IF table = {} THEN 1
    ELSE (CHOOSE m \in {r.rowid : r \in table} :
            \A r \in table : r.rowid <= m) + 1

\* the row INSERT INTO threats (...) VALUES (..., CURRENT_TIMESTAMP) adds
InsertedRow(table, p, t) ==
    [c \in RowFields |->
        IF c = "rowid" THEN NextRowid(table)
        ELSE IF c \in {"created_at", "updated_at"} THEN CurrentTimestamp(t)
        ELSE p[c]]

\* the row ON CONFLICT(id) DO UPDATE SET ... leaves
UpdatedRow(old, p, t) ==
    [c \in RowFields |->
        IF c \in ConflictColumns THEN p[c]
        ELSE IF c = "updated_at" THEN CurrentTimestamp(t)
        ELSE old[c]]

\* the values a trigger passes to threats_fts for a row
FtsEntry(row) ==
    [rowid |-> row.rowid, id |-> row.id, title |-> row.title,
     summary |-> row.summary, cves |-> row.cves,
     source_name |-> row.source_name]

\* trigger threats_ai
threats_ai(fts, new) == fts \cup {FtsEntry(new)}

\* threats_ad without its 'delete'
threats_ad_keeps_entry(fts, old) == fts

\* trigger threats_ad
threats_ad(fts, old) == fts \ {FtsEntry(old)}

\* threats_au without the 'delete' of the OLD values
threats_au_keeps_old(fts, old, new) == fts \cup {FtsEntry(new)}

\* trigger threats_au: 'delete' of the OLD values, then insert of the NEW
threats_au(fts, old, new) == (fts \ {FtsEntry(old)}) \cup {FtsEntry(new)}

\* _row_to_threat
RowToThreat(row, t) ==
    [id |-> row.id, source_type |-> row.source_type,
     source_name |-> row.source_name,
     source_url |-> OrStr(row.source_url, ""),
     title |-> row.title, summary |-> OrText(row.summary, <<>>),
     published_utc |-> IF row.published_utc # <<>>
                       THEN FromIsoFormat(row.published_utc) ELSE t,
     collected_utc |-> IF row.collected_utc # <<>>
                       THEN FromIsoFormat(row.collected_utc) ELSE t,
     cves |-> IF row.cves # <<>> THEN JsonLoads(row.cves) ELSE <<>>,
     cvss_v3 |-> row.cvss_v3, epss_score |-> row.epss_score,
     epss_percentile |-> row.epss_percentile,
     kev_listed |-> row.kev_listed # 0,
     exploit_status |-> row.exploit_status,
     admiralty_source_reliability |->
        OrStr(row.admiralty_source_reliability, "C"),
     admiralty_info_credibility |->
        OrNum(row.admiralty_info_credibility, 3),
     priority_level |-> OrStr(row.priority_level, "medium"),
     risk_score |-> OrNum(row.risk_score, 0),
     verification_confidence |-> row.verification_confidence,
     verification_method |-> row.verification_method,
     verification_timestamp |->
        IF row.verification_timestamp # None
        THEN Some(FromIsoFormat(row.verification_timestamp[1])) ELSE None,
     affected_crown_jewels |->
        IF row.affected_crown_jewels # <<>>
        THEN JsonLoads(row.affected_crown_jewels) ELSE <<>>,
     asset_exposure_match |->
        IF row.asset_exposure_match # <<>>
        THEN JsonLoads(row.asset_exposure_match) ELSE <<>>,
     dedupe_key |-> OrStr(row.dedupe_key, ""),
     search_content |-> <<>>]

\* the threats rows with the given id
ThreatRows(table, id) == {r \in table : r.id = id}

\* SELECT * FROM threats WHERE id = ? ... fetchone(), then _row_to_threat
GetThreat(table, id, t) ==
    IF ThreatRows(table, id) = {} THEN None
    ELSE Some(RowToThreat(CHOOSE r \in ThreatRows(table, id) : TRUE, t))

(***************************************************************************)
(* Operations.                                                             *)
(***************************************************************************)
\* no call of the engine is in progress
Idle == [pc |-> "idle"]

\* the tables, triggers and indexes _init_db creates, in the order of its
\* statements; sqlite_master lists them in the order of their creation
SchemaObjects ==
    <<[type |-> "table", name |-> "threats"],
      [type |-> "table", name |-> "threats_fts"],
      [type |-> "trigger", name |-> "threats_ai"],
      [type |-> "trigger", name |-> "threats_ad"],
      [type |-> "trigger", name |-> "threats_au"],
      [type |-> "table", name |-> "cve_cache"],
      [type |-> "table", name |-> "verification_cache"],
      [type |-> "table", name |-> "feed_metrics"],
      [type |-> "index", name |-> "idx_threats_priority"],
      [type |-> "index", name |-> "idx_threats_published"],
      [type |-> "index", name |-> "idx_threats_kev"],
      [type |-> "index", name |-> "idx_threats_cvss"],
      [type |-> "index", name |-> "idx_threats_dedupe"],
      [type |-> "index", name |-> "idx_cve_cache_expires"],
      [type |-> "index", name |-> "idx_verification_expires"]>>

\* a schema whose triggers are created without IF NOT EXISTS
IfNotExists_plain_trigger(obj) == obj.type # "trigger"

\* every CREATE statement of _init_db is CREATE ... IF NOT EXISTS
IfNotExists(obj) == TRUE

\* the schema holds an object of this name
Exists(master, obj) == \E i \in 1..Len(master) : master[i].name = obj.name

\* one CREATE statement: an object that exists is left alone under IF NOT
\* EXISTS and makes the statement raise without it
Create(master, obj) ==
    [master |-> IF Exists(master, obj) THEN master ELSE Append(master, obj),
     raised |-> Exists(master, obj) /\ ~IfNotExists(obj)]

\* the statements of _init_db from the i-th on; the first that raises ends
\* the constructor
RECURSIVE InitDb(_, _)
InitDb(i, master) ==
    IF i > Len(SchemaObjects) THEN [master |-> master, raised |-> FALSE]
    ELSE LET r == Create(master, SchemaObjects[i])
         IN  IF r.raised THEN r ELSE InitDb(i + 1, r.master)

\* the connections whose calls run at the same time
Sessions == {"w1", "w2", "r"}

\* no session has a call in progress
NoSessions == [s \in Sessions |-> Idle]

Init ==
    /\ threats = {}
    /\ threats_fts = {}
    /\ cve_cache = {}
    /\ verification_cache = {}
    /\ feed_metrics = {}
    /\ now = 0
    /\ ret = [op |-> "open"]
    /\ conns = 0
    /\ call = Idle
    /\ sqlite_master = InitDb(1, <<>>).master
    /\ sessions = NoSessions

\* the wall clock read by datetime.utcnow() and CURRENT_TIMESTAMP advances
Tick ==
    /\ now < MaxTime
    /\ now' = now + 1
    /\ ret' = [op |-> "tick"]
    /\ UNCHANGED <<threats, threats_fts, cve_cache, verification_cache,
                   feed_metrics,
                   conns, call,
                   sqlite_master, sessions>>

upsert_threat(threat) ==
    LET p == ThreatParams(threat)
        hit == ThreatRows(threats, threat.id)
    IN  /\ hit = {} => NextRowid(threats) <= MaxRowid
        /\ IF hit = {}
           THEN LET new == InsertedRow(threats, p, now)
                IN  /\ threats' = threats \cup {new}
                    /\ threats_fts' = threats_ai(threats_fts, new)
           ELSE LET old == CHOOSE r \in hit : TRUE
                    new == UpdatedRow(old, p, now)
                IN  /\ threats' = (threats \ {old}) \cup {new}
                    /\ threats_fts' = threats_au(threats_fts, old, new)
        /\ ret' = [op |-> "upsert_threat", arg |-> threat, val |-> TRUE]
        /\ UNCHANGED <<cve_cache, verification_cache, feed_metrics, now,
                       conns, call,
                       sqlite_master, sessions>>

get_threat(threat_id) ==
    /\ ret' = [op |-> "get_threat", arg |-> threat_id,
               val |-> GetThreat(threats, threat_id, now)]
    /\ UNCHANGED <<threats, threats_fts, cve_cache, verification_cache,
                   feed_metrics, now,
                   conns, call,
                   sqlite_master, sessions>>

\* inputs of the upsert specification: every variant of one id and the
\* default record of the other
UpsertInputs ==
    ThreatVariants(<<"t", "1">>) \cup {ThreatRecord(<<"t", "2">>)}

NextUpsert ==
    \/ Tick
    \/ \E threat \in UpsertInputs : upsert_threat(threat)
    \/ \E id \in ThreatIds : get_threat(id)

SpecUpsert == Init /\ [][NextUpsert]_vars

(***************************************************************************)
(* Full-text search (threats_fts is an fts5 table with the default         *)
(* tokenizer; search_threats binds the query string to MATCH).             *)
(***************************************************************************)
\* the characters of the model's texts that are not letters or digits
Separators == {" ", "[", "]", "\"", ","}

RECURSIVE TokenScan(_, _, _)
TokenScan(s, cur, acc) ==
    IF s = <<>> THEN (IF cur = <<>> THEN acc ELSE acc \cup {cur})
    ELSE IF Head(s) \in Separators
         THEN TokenScan(Tail(s), <<>>,
                        IF cur = <<>> THEN acc ELSE acc \cup {cur})
         ELSE TokenScan(Tail(s), Append(cur, Head(s)), acc)

\* the tokens fts5 takes from a text: its maximal runs of letters and digits
Tokens(text) == TokenScan(text, <<>>, {})

\* the tokens of an index entry, over all indexed columns
EntryTokens(e) ==
    Tokens(e.id) \cup Tokens(e.title) \cup Tokens(e.summary)
        \cup Tokens(e.cves) \cup Tokens(e.source_name)

\* threats_fts MATCH ?: a query of bare words is the AND of its words, each
\* matched as a whole token of any column
Matches(e, query) == Tokens(query) \subseteq EntryTokens(e)

\* the rowids of the index that satisfy the query
MatchedRowids(fts, query) == {e.rowid : e \in {x \in fts : Matches(x, query)}}

\* FROM threats t JOIN threats_fts fts ON t.id = fts.id: the columns of fts
\* are read from the content table by rowid
SearchRows(table, fts, query) ==
    {t \in table :
        \E c \in table : c.rowid \in MatchedRowids(fts, query) /\ c.id = t.id}

\* the orderings of a set of rows
Orderings(rows) ==
    {o \in [1..Cardinality(rows) -> rows] :
        \A i, j \in 1..Cardinality(rows) : o[i] = o[j] => i = j}

\* LIMIT ?
Limit(list, limit) ==
    IF Len(list) <= limit THEN list ELSE SubSeq(list, 1, limit)

\* default of the limit parameter of search_threats
DefaultSearchLimit == 50

Titles == {<<"a", "b">>, <<"a", " ", "b">>, <<"b">>}

Summaries == {<<>>, <<"a">>}

\* inputs of the full-text specification
FtsInputs ==
    {[ThreatRecord(<<"t", "1">>) EXCEPT !.title = t, !.summary = m] :
        t \in Titles, m \in Summaries}
    \cup {[ThreatRecord(<<"t", "2">>) EXCEPT !.title = t] : t \in Titles}

Substrings(text) ==
    {SubSeq(text, i, j) : i \in 1..Len(text), j \in 1..Len(text)} \ {<<>>}

\* the queries: every substring of every title
Queries == UNION {Substrings(t) : t \in Titles}

Limits == {1, DefaultSearchLimit}

\* rows come back ORDER BY rank; the rank is left open
search_threats(query, limit) ==
    /\ IF Tokens(query) = {}
       THEN ret' = [op |-> "search_threats", query |-> query, limit |-> limit,
                    raised |-> TRUE, val |-> <<>>]
       ELSE \E o \in Orderings(SearchRows(threats, threats_fts, query)) :
                ret' = [op |-> "search_threats", query |-> query,
                        limit |-> limit, raised |-> FALSE,
                        val |-> [i \in 1..Len(Limit(o, limit)) |->
                                    RowToThreat(o[i], now)]]
    /\ UNCHANGED <<threats, threats_fts, cve_cache, verification_cache,
                   feed_metrics, now,
                   conns, call,
                   sqlite_master, sessions>>

\* DELETE FROM threats WHERE id = ?, the statement that fires threats_ad
delete_threat(threat_id) ==
    /\ ThreatRows(threats, threat_id) # {}
    /\ LET old == CHOOSE r \in ThreatRows(threats, threat_id) : TRUE
       IN  /\ threats' = threats \ {old}
           /\ threats_fts' = threats_ad(threats_fts, old)
    /\ ret' = [op |-> "delete_threat", arg |-> threat_id]
    /\ UNCHANGED <<cve_cache, verification_cache, feed_metrics, now,
                   conns, call,
                   sqlite_master, sessions>>

NextFts ==
    \/ \E threat \in FtsInputs : upsert_threat(threat)
    \/ \E id \in ThreatIds : delete_threat(id)
    \/ \E query \in Queries, limit \in Limits : search_threats(query, limit)

SpecFts == Init /\ [][NextFts]_vars

(***************************************************************************)
(* The CVE cache (cache_cve, get_cve), the verification rows written by    *)
(* the import (migrations.py) and the expiry sweep.                        *)
(***************************************************************************)
CveIds == {<<"c", "1">>, <<"c", "2">>}

CveFieldNames ==
    {"cve_id", "cvss_v3_score", "cvss_v3_vector", "cvss_v4_score",
     "epss_score", "epss_percentile", "kev_listed", "kev_date_added",
     "kev_due_date", "description", "affected_products", "references",
     "published_date", "last_modified"}

\* a CVERecord with the dataclass defaults; cached_at and cache_expires of
\* the argument are not read by cache_cve
CVERecord(id) ==
    [cve_id |-> id, cvss_v3_score |-> None, cvss_v3_vector |-> None,
     cvss_v4_score |-> None, epss_score |-> None, epss_percentile |-> None,
     kev_listed |-> FALSE, kev_date_added |-> None, kev_due_date |-> None,
     description |-> "", affected_products |-> <<>>, references |-> <<>>,
     published_date |-> None, last_modified |-> None]

\* a second valid value for every field of a CVERecord
OtherCveValue ==
    [cve_id |-> <<"c", "1">>, cvss_v3_score |-> Some(98),
     cvss_v3_vector |-> Some("AV:N"), cvss_v4_score |-> Some(0),
     epss_score |-> Some(9), epss_percentile |-> Some(0),
     kev_listed |-> TRUE, kev_date_added |-> Some(1),
     kev_due_date |-> Some(3), description |-> "d",
     affected_products |-> << <<"a">> >>, references |-> << <<"u">> >>,
     published_date |-> Some(0), last_modified |-> Some(2)]

CveVariants(id) ==
    {CVERecord(id)} \cup
    {[CVERecord(id) EXCEPT ![f] = OtherCveValue[f]] :
        f \in CveFieldNames \ {"cve_id"}}

\* isoformat() of an Optional datetime: `x.isoformat() if x else None`
IsoOrNone(x) == IF x # None THEN Some(IsoFormat(x[1])) ELSE None

\* the parameter tuple bound to the INSERT of cache_cve
CveParams(cve, expires) ==
    [cve_id |-> cve.cve_id, cvss_v3_score |-> cve.cvss_v3_score,
     cvss_v3_vector |-> cve.cvss_v3_vector,
     cvss_v4_score |-> cve.cvss_v4_score, epss_score |-> cve.epss_score,
     epss_percentile |-> cve.epss_percentile,
     kev_listed |-> IF cve.kev_listed THEN 1 ELSE 0,
     kev_date_added |-> IsoOrNone(cve.kev_date_added),
     kev_due_date |-> IsoOrNone(cve.kev_due_date),
     description |-> cve.description,
     affected_products |-> JsonDumps(cve.affected_products),
     references_json |-> JsonDumps(cve.references),
     published_date |-> IsoOrNone(cve.published_date),
     last_modified |-> IsoOrNone(cve.last_modified),
     cache_expires |-> Some(expires)]

CveColumns ==
    {"cve_id", "cvss_v3_score", "cvss_v3_vector", "cvss_v4_score",
     "epss_score", "epss_percentile", "kev_listed", "kev_date_added",
     "kev_due_date", "description", "affected_products", "references_json",
     "published_date", "last_modified", "cached_at", "cache_expires"}

\* the columns assigned by ON CONFLICT(cve_id) DO UPDATE SET, cached_at apart
CveConflictColumns ==
    {"cvss_v3_score", "cvss_v3_vector", "cvss_v4_score", "epss_score",
     "epss_percentile", "kev_listed", "description", "affected_products",
     "references_json", "cache_expires"}

InsertedCveRow(p, t) ==
    [c \in CveColumns |->
        IF c = "cached_at" THEN CurrentTimestamp(t) ELSE p[c]]

UpdatedCveRow(old, p, t) ==
    [c \in CveColumns |->
        IF c \in CveConflictColumns THEN p[c]
        ELSE IF c = "cached_at" THEN CurrentTimestamp(t)
        ELSE old[c]]

CveRows(table, id) == {r \in table : r.cve_id = id}

\* the table after the INSERT ... ON CONFLICT of cache_cve
CachedCve(table, cve, ttl_hours, t) ==
    LET p == CveParams(cve, IsoFormat(t + Hours(ttl_hours)))
        hit == CveRows(table, cve.cve_id)
    IN  IF hit = {} THEN table \cup {InsertedCveRow(p, t)}
        ELSE LET old == CHOOSE r \in hit : TRUE
             IN  (table \ {old}) \cup {UpdatedCveRow(old, p, t)}

\* the test of get_cve with >= in place of >
Readable_at_expiry(row, t) ==
    \/ row.cache_expires = None
    \/ FromIsoFormat(row.cache_expires[1]) >= t

\* the test of get_cve on a fetched row:
\* not row["cache_expires"] or fromisoformat(row["cache_expires"]) > utcnow()
Readable(row, t) ==
    \/ row.cache_expires = None
    \/ FromIsoFormat(row.cache_expires[1]) > t

\* the CVERecord get_cve builds from a row; the fields it does not pass keep
\* their dataclass defaults
RowToCve(row, t) ==
    [cve_id |-> row.cve_id, cvss_v3_score |-> row.cvss_v3_score,
     cvss_v3_vector |-> row.cvss_v3_vector,
     cvss_v4_score |-> row.cvss_v4_score, epss_score |-> row.epss_score,
     epss_percentile |-> row.epss_percentile,
     kev_listed |-> row.kev_listed # 0,
     kev_date_added |-> None, kev_due_date |-> None,
     description |-> OrStr(row.description, ""),
     affected_products |-> IF row.affected_products # <<>>
                           THEN JsonLoads(row.affected_products) ELSE <<>>,
     references |-> IF row.references_json # <<>>
                    THEN JsonLoads(row.references_json) ELSE <<>>,
     published_date |-> None, last_modified |-> None]

\* get_cve without the test of cache_expires
GetCve_ignores_expiry(table, id, t) ==
    IF CveRows(table, id) # {}
    THEN Some(RowToCve(CHOOSE r \in CveRows(table, id) : TRUE, t))
    ELSE None

GetCve(table, id, t) ==
    IF \E r \in CveRows(table, id) : Readable(r, t)
    THEN Some(RowToCve(CHOOSE r \in CveRows(table, id) : TRUE, t))
    ELSE None

\* a sweep that deletes nothing
SweepKeeps_everything(table, now_text) == table

\* a sweep with <= in place of <
SweepKeeps_before_expiry(table, now_text) ==
    {r \in table :
        ~(r.cache_expires # None /\ ~TextLess(now_text, r.cache_expires[1]))}

\* a sweep that takes a NULL cache_expires for an expiry in the past
SweepKeeps_unset_expiry(table, now_text) ==
    {r \in table :
        r.cache_expires # None /\ ~TextLess(r.cache_expires[1], now_text)}

\* DELETE FROM <table> WHERE cache_expires < ?: the rows that stay.  A NULL
\* cache_expires compares to NULL and the row stays.
SweepKeeps(table, now_text) ==
    {r \in table :
        ~(r.cache_expires # None /\ TextLess(r.cache_expires[1], now_text))}

\* one entry of the `verifications` object of a legacy snapshot; a key the
\* entry does not hold is None
VerificationEntries ==
    {[verified |-> None, confidence |-> None, method |-> None,
      sources |-> None, nvd_match |-> None, cisa_kev_match |-> None,
      vendor_advisory_match |-> None, last_verified |-> None],
     [verified |-> Some(TRUE), confidence |-> Some(9),
      method |-> Some("jina"), sources |-> Some(<< <<"u">> >>),
      nvd_match |-> Some(TRUE), cisa_kev_match |-> Some(FALSE),
      vendor_advisory_match |-> Some(TRUE),
      last_verified |-> Some(<<"0", "1">>)]}

\* dict.get(key, default)
DictGet(x, default) == IF x = None THEN default ELSE x[1]

\* `1 if data.get(key) else 0`
Flag(x) == IF x # None /\ x[1] THEN 1 ELSE 0

\* the row INSERT OR REPLACE INTO verification_cache writes; the columns the
\* statement does not name take their defaults
VerificationRow(threat_id, data, t) ==
    [threat_id |-> threat_id, verified |-> Flag(data.verified),
     confidence_score |-> DictGet(data.confidence, 0),
     verification_method |-> DictGet(data.method, "structured"),
     sources_consulted |-> JsonDumps(DictGet(data.sources, <<>>)),
     nvd_match |-> Flag(data.nvd_match),
     cisa_kev_match |-> Flag(data.cisa_kev_match),
     vendor_advisory_match |-> Flag(data.vendor_advisory_match),
     web_sources_count |-> 0,
     verified_at |-> DictGet(data.last_verified, IsoFormat(t)),
     cache_expires |-> None, cost_usd |-> 0]

cache_cve(cve, ttl_hours) ==
    /\ cve_cache' = CachedCve(cve_cache, cve, ttl_hours, now)
    /\ ret' = [op |-> "cache_cve", arg |-> cve, ttl_hours |-> ttl_hours]
    /\ UNCHANGED <<threats, threats_fts, verification_cache, feed_metrics,
                   now,
                   conns, call,
                   sqlite_master, sessions>>

get_cve(cve_id) ==
    /\ ret' = [op |-> "get_cve", arg |-> cve_id,
               val |-> GetCve(cve_cache, cve_id, now)]
    /\ UNCHANGED <<threats, threats_fts, cve_cache, verification_cache,
                   feed_metrics, now,
                   conns, call,
                   sqlite_master, sessions>>

\* a sweep that also deletes the feed_metrics rows last checked before now
cleanup_expired_sweeps_feeds ==
    /\ cve_cache' = SweepKeeps(cve_cache, IsoFormat(now))
    /\ verification_cache' = SweepKeeps(verification_cache, IsoFormat(now))
    /\ feed_metrics' =
            {r \in feed_metrics : ~TextLess(r.last_check, IsoFormat(now))}
    /\ ret' = [op |-> "cleanup_expired",
               deleted |-> cve_cache \ SweepKeeps(cve_cache, IsoFormat(now))]
    /\ UNCHANGED <<threats, threats_fts, now,
                   conns, call,
                   sqlite_master, sessions>>

cleanup_expired ==
    /\ cve_cache' = SweepKeeps(cve_cache, IsoFormat(now))
    /\ verification_cache' = SweepKeeps(verification_cache, IsoFormat(now))
    /\ ret' = [op |-> "cleanup_expired",
               deleted |-> cve_cache \ SweepKeeps(cve_cache, IsoFormat(now))]
    /\ UNCHANGED <<threats, threats_fts, feed_metrics, now,
                   conns, call,
                   sqlite_master, sessions>>

\* one pass of the verification loop of migrate_json_cache
migrate_verification(threat_id, data) ==
    /\ verification_cache' =
            {r \in verification_cache : r.threat_id # threat_id}
                \cup {VerificationRow(threat_id, data, now)}
    /\ ret' = [op |-> "migrate_verification", arg |-> threat_id]
    /\ UNCHANGED <<threats, threats_fts, cve_cache, feed_metrics, now,
                   conns, call,
                   sqlite_master, sessions>>

\* the TTLs passed to cache_cve, in hours
Ttls == {0, 1}

\* inputs of the cache specification
CacheInputs ==
    {CVERecord(<<"c", "1">>),
     [CVERecord(<<"c", "1">>) EXCEPT !.description = "d"],
     [CVERecord(<<"c", "1">>) EXCEPT !.kev_date_added = Some(1)],
     CVERecord(<<"c", "2">>)}

NextCache ==
    \/ Tick
    \/ \E cve \in CacheInputs, ttl \in Ttls : cache_cve(cve, ttl)
    \/ \E id \in CveIds : get_cve(id)
    \/ cleanup_expired
    \/ \E data \in VerificationEntries :
            migrate_verification(<<"t", "1">>, data)

SpecCache == Init /\ [][NextCache]_vars

(***************************************************************************)
(* Feed metrics, compaction and the specification of the whole engine.     *)
(***************************************************************************)
FeedUrls == {"u1", "u2"}

FeedFieldNames ==
    {"feed_name", "feed_url", "last_check", "last_success",
     "response_time_ms", "http_status", "error_count_24h",
     "items_collected_24h", "items_collected_7d",
     "security_relevance_score", "duplicate_rate", "avg_cves_per_item",
     "accessibility_score", "relevance_score", "timeliness_score",
     "uniqueness_score", "overall_score"}

\* a FeedMetric with the dataclass defaults, checked at instant 0
FeedMetric(url) ==
    [feed_name |-> "f", feed_url |-> url, last_check |-> 0,
     last_success |-> None, response_time_ms |-> 0, http_status |-> 0,
     error_count_24h |-> 0, items_collected_24h |-> 0,
     items_collected_7d |-> 0, security_relevance_score |-> 0,
     duplicate_rate |-> 0, avg_cves_per_item |-> 0,
     accessibility_score |-> 1000, relevance_score |-> 500,
     timeliness_score |-> 500, uniqueness_score |-> 1000,
     overall_score |-> 750]

\* a second valid value for every field of a FeedMetric
OtherFeedValue ==
    [feed_name |-> "g", feed_url |-> "u1", last_check |-> 1,
     last_success |-> Some(1), response_time_ms |-> 20, http_status |-> 200,
     error_count_24h |-> 1, items_collected_24h |-> 2,
     items_collected_7d |-> 3, security_relevance_score |-> 5,
     duplicate_rate |-> 1, avg_cves_per_item |-> 4,
     accessibility_score |-> 0, relevance_score |-> 0,
     timeliness_score |-> 0, uniqueness_score |-> 0, overall_score |-> 0]

FeedVariants(url) ==
    {FeedMetric(url)} \cup
    {[FeedMetric(url) EXCEPT ![f] = OtherFeedValue[f]] :
        f \in FeedFieldNames \ {"feed_url"}}

\* the parameter tuple bound to the INSERT of update_feed_metrics
FeedParams(metrics) ==
    [c \in FeedFieldNames |->
        IF c = "last_check" THEN IsoFormat(metrics.last_check)
        ELSE IF c = "last_success" THEN IsoOrNone(metrics.last_success)
        ELSE metrics[c]]

FeedRows(table, url) == {r \in table : r.feed_url = url}

\* the table after the INSERT ... ON CONFLICT(feed_url) DO UPDATE SET, which
\* assigns every column but feed_url
UpdatedFeeds(table, metrics) ==
    {r \in table : r.feed_url # metrics.feed_url} \cup {FeedParams(metrics)}

\* the FeedMetric get_all_feed_metrics builds from a row
RowToFeed(row, t) ==
    [feed_name |-> row.feed_name, feed_url |-> row.feed_url,
     last_check |-> IF row.last_check # <<>>
                    THEN FromIsoFormat(row.last_check) ELSE t,
     last_success |-> IF row.last_success # None
                      THEN Some(FromIsoFormat(row.last_success[1])) ELSE None,
     response_time_ms |-> OrNum(row.response_time_ms, 0),
     http_status |-> OrNum(row.http_status, 0),
     error_count_24h |-> OrNum(row.error_count_24h, 0),
     items_collected_24h |-> OrNum(row.items_collected_24h, 0),
     items_collected_7d |-> OrNum(row.items_collected_7d, 0),
     security_relevance_score |-> OrNum(row.security_relevance_score, 0),
     duplicate_rate |-> OrNum(row.duplicate_rate, 0),
     avg_cves_per_item |-> OrNum(row.avg_cves_per_item, 0),
     accessibility_score |-> OrNum(row.accessibility_score, 1000),
     relevance_score |-> OrNum(row.relevance_score, 500),
     timeliness_score |-> OrNum(row.timeliness_score, 500),
     uniqueness_score |-> OrNum(row.uniqueness_score, 1000),
     overall_score |-> OrNum(row.overall_score, 750)]

update_feed_metrics(metrics) ==
    /\ feed_metrics' = UpdatedFeeds(feed_metrics, metrics)
    /\ ret' = [op |-> "update_feed_metrics", arg |-> metrics]
    /\ UNCHANGED <<threats, threats_fts, cve_cache, verification_cache, now,
                   conns, call,
                   sqlite_master, sessions>>

\* SELECT * FROM feed_metrics ORDER BY overall_score DESC; rows of equal
\* score come in any order
get_all_feed_metrics ==
    /\ \E o \in Orderings(feed_metrics) :
        /\ \A i, j \in 1..Cardinality(feed_metrics) :
                i < j => o[i].overall_score >= o[j].overall_score
        /\ ret' = [op |-> "get_all_feed_metrics",
                   val |-> [i \in 1..Cardinality(feed_metrics) |->
                                RowToFeed(o[i], now)]]
    /\ UNCHANGED <<threats, threats_fts, cve_cache, verification_cache,
                   feed_metrics, now,
                   conns, call,
                   sqlite_master, sessions>>

\* VACUUM rewrites the file and leaves every table as it is
vacuum ==
    /\ ret' = [op |-> "vacuum"]
    /\ UNCHANGED <<threats, threats_fts, cve_cache, verification_cache,
                   feed_metrics, now,
                   conns, call,
                   sqlite_master, sessions>>

\* inputs of the specification of the whole engine
EngineThreats ==
    {ThreatRecord(<<"t", "1">>),
     [ThreatRecord(<<"t", "1">>) EXCEPT !.title = <<"a", " ", "b">>],
     ThreatRecord(<<"t", "2">>)}

EngineCves == {CVERecord(<<"c", "1">>)}

EngineFeeds ==
    {FeedMetric("u1"), [FeedMetric("u1") EXCEPT !.overall_score = 0],
     FeedMetric("u2")}

Next ==
    \/ Tick
    \/ \E threat \in EngineThreats : upsert_threat(threat)
    \/ \E id \in ThreatIds : get_threat(id)
    \/ \E query \in {<<"a">>, <<"a", "b">>} :
            search_threats(query, DefaultSearchLimit)
    \/ \E cve \in EngineCves, ttl \in Ttls : cache_cve(cve, ttl)
    \/ \E id \in CveIds : get_cve(id)
    \/ \E metrics \in EngineFeeds : update_feed_metrics(metrics)
    \/ get_all_feed_metrics
    \/ cleanup_expired
    \/ vacuum

Spec == Init /\ [][Next]_vars

(***************************************************************************)
(* Scoped connections (_get_connection).  A call of the engine is taken    *)
(* apart into the steps at which it can fail: sqlite3.connect, the PRAGMAs *)
(* before the try, each statement, the commit, and the return through the  *)
(* finally that closes the connection.  The tables hold the committed      *)
(* state, which is what every other connection reads; the statements of a  *)
(* call act on the view of its own open transaction.                       *)
(***************************************************************************)
\* most connections open at one time
MaxConns == 2

\* the committed tables a transaction can change
Store ==
    [threats |-> threats, threats_fts |-> threats_fts,
     cve_cache |-> cve_cache, verification_cache |-> verification_cache]

\* the threats table and its index after the INSERT ... ON CONFLICT of
\* upsert_threat and the trigger it fires
Upserted(view, threat, t) ==
    LET p == ThreatParams(threat)
        hit == ThreatRows(view.threats, threat.id)
    IN  IF hit = {}
        THEN LET new == InsertedRow(view.threats, p, t)
             IN  [view EXCEPT !.threats = @ \cup {new},
                              !.threats_fts = threats_ai(@, new)]
        ELSE LET old == CHOOSE r \in hit : TRUE
                 new == UpdatedRow(old, p, t)
             IN  [view EXCEPT !.threats = (@ \ {old}) \cup {new},
                              !.threats_fts = threats_au(@, old, new)]

\* what the connection of the call reads: its open transaction, or the
\* committed tables when it has none
View(c) == IF c.txn = None THEN Store ELSE c.txn[1]

\* the view after the statement at the call's position
Executed(c, t) ==
    IF c.op = "upsert_threat" THEN Upserted(View(c), c.arg, t)
    ELSE IF c.op = "cleanup_expired" /\ c.pc = "execute"
    THEN [View(c) EXCEPT !.cve_cache = SweepKeeps(@, IsoFormat(c.at))]
    ELSE IF c.op = "cleanup_expired"
    THEN [View(c) EXCEPT
            !.verification_cache = SweepKeeps(@, IsoFormat(c.at))]
    ELSE View(c)

\* the position after the statement at the call's position
AfterStatement(c) ==
    IF c.op = "get_threat" THEN "return"
    ELSE IF c.op = "cleanup_expired" /\ c.pc = "execute" THEN "execute2"
    ELSE "commit"

\* what the call returns
Returned(c, t) ==
    IF c.op = "upsert_threat" THEN TRUE
    ELSE IF c.op = "get_threat"
    THEN (IF c.rows = {} THEN None
          ELSE Some(RowToThreat(CHOOSE r \in c.rows : TRUE, t)))
    ELSE None

\* a connection that closes with an open transaction without the rollback:
\* the change of the threats table stays
Rollback_keeps_row(store, txn) ==
    IF txn = None THEN store ELSE [store EXCEPT !.threats = txn[1].threats]

\* conn.close() with an open transaction rolls it back
Rollback(store, txn) == store

\* the connections open outside a call in progress
Leaked == conns - (IF call.pc = "idle" THEN 0 ELSE 1)

\* the call enters _get_connection: sqlite3.connect; cleanup_expired has read
\* the clock before
Connect(op, arg) ==
    /\ call.pc = "idle"
    /\ conns < MaxConns
    /\ conns' = conns + 1
    /\ call' = [pc |-> "configure", op |-> op, arg |-> arg, at |-> now,
                txn |-> None, rows |-> {}]
    /\ UNCHANGED <<threats, threats_fts, cve_cache, verification_cache,
                   feed_metrics, now, ret,
                   sqlite_master, sessions>>

\* row_factory and the four PRAGMAs succeed and the try is entered
Configure ==
    /\ call.pc = "configure"
    /\ call' = [call EXCEPT !.pc = "execute"]
    /\ UNCHANGED <<threats, threats_fts, cve_cache, verification_cache,
                   feed_metrics, now, ret, conns,
                   sqlite_master, sessions>>

\* a PRAGMA raises: the try is not entered yet, so close() is not called
ConfigureRaises ==
    /\ call.pc = "configure"
    /\ call' = Idle
    /\ ret' = [op |-> call.op, arg |-> call.arg, raised |-> TRUE,
               step |-> call.pc, at |-> call.at]
    /\ UNCHANGED <<threats, threats_fts, cve_cache, verification_cache,
                   feed_metrics, now, conns,
                   sqlite_master, sessions>>

\* conn.execute of the statement at the call's position; a statement that
\* writes opens the transaction
Execute ==
    /\ call.pc \in {"execute", "execute2"}
    /\ (call.op = "upsert_threat" /\ ThreatRows(threats, call.arg.id) = {})
            => NextRowid(threats) <= MaxRowid
    /\ call' = [call EXCEPT
                    !.pc = AfterStatement(call),
                    !.txn = IF call.op = "get_threat" THEN None
                            ELSE Some(Executed(call, now)),
                    !.rows = IF call.op = "get_threat"
                             THEN ThreatRows(threats, call.arg) ELSE {}]
    /\ UNCHANGED <<threats, threats_fts, cve_cache, verification_cache,
                   feed_metrics, now, ret, conns,
                   sqlite_master, sessions>>

\* conn.commit(): the transaction becomes the committed state
Commit ==
    /\ call.pc = "commit"
    /\ threats' = call.txn[1].threats
    /\ threats_fts' = call.txn[1].threats_fts
    /\ cve_cache' = call.txn[1].cve_cache
    /\ verification_cache' = call.txn[1].verification_cache
    /\ call' = [call EXCEPT !.pc = "return", !.txn = None]
    /\ UNCHANGED <<feed_metrics, now, ret, conns,
                   sqlite_master, sessions>>

\* the call returns through the finally: conn.close()
Return ==
    /\ call.pc = "return"
    /\ conns' = conns - 1
    /\ call' = Idle
    /\ ret' = [op |-> call.op, arg |-> call.arg, raised |-> FALSE,
               val |-> Returned(call, now)]
    /\ UNCHANGED <<threats, threats_fts, cve_cache, verification_cache,
                   feed_metrics, now,
                   sqlite_master, sessions>>

\* a failed call that starts over instead of raising
Raise_retries ==
    /\ call.pc \in {"execute", "execute2", "commit", "return"}
    /\ call.pc = "return" => call.op = "get_threat"
    /\ call' = [call EXCEPT !.pc = "execute", !.txn = None, !.rows = {}]
    /\ LET kept == Rollback(Store, call.txn)
       IN  /\ threats' = kept.threats
           /\ threats_fts' = kept.threats_fts
           /\ cve_cache' = kept.cve_cache
           /\ verification_cache' = kept.verification_cache
    /\ UNCHANGED <<feed_metrics, now, ret, conns,
                   sqlite_master, sessions>>

\* a statement, the commit or the conversion of the fetched row raises inside
\* the try: the finally closes the connection, and the exception leaves the
\* call
Raise ==
    /\ call.pc \in {"execute", "execute2", "commit", "return"}
    /\ call.pc = "return" => call.op = "get_threat"
    /\ conns' = conns - 1
    /\ call' = Idle
    /\ ret' = [op |-> call.op, arg |-> call.arg, raised |-> TRUE,
               step |-> call.pc, at |-> call.at]
    /\ LET kept == Rollback(Store, call.txn)
       IN  /\ threats' = kept.threats
           /\ threats_fts' = kept.threats_fts
           /\ cve_cache' = kept.cve_cache
           /\ verification_cache' = kept.verification_cache
    /\ UNCHANGED <<feed_metrics, now,
                   sqlite_master, sessions>>

\* the interpreter finalizes a Connection nothing refers to any more
Collect ==
    /\ Leaked > 0
    /\ conns' = conns - 1
    /\ UNCHANGED <<threats, threats_fts, cve_cache, verification_cache,
                   feed_metrics, now, ret, call,
                   sqlite_master, sessions>>

\* another connection cannot write while the call holds the write lock
WriteLocked == call.pc # "idle" /\ call.txn # None

\* inputs of the connection specification
ConnThreats ==
    {ThreatRecord(<<"t", "1">>),
     [ThreatRecord(<<"t", "1">>) EXCEPT !.title = <<"a", " ", "b">>]}

NextConn ==
    \/ Tick
    \/ \E threat \in ConnThreats : Connect("upsert_threat", threat)
    \/ Connect("get_threat", <<"t", "1">>)
    \/ Connect("cleanup_expired", None)
    \/ Configure
    \/ ConfigureRaises
    \/ Execute
    \/ Commit
    \/ Return
    \/ Raise
    \/ Collect
    \/ \E cve \in EngineCves, ttl \in Ttls :
            ~WriteLocked /\ cache_cve(cve, ttl)
    \/ search_threats(<<"a">>, DefaultSearchLimit)

SpecConn == Init /\ [][NextConn]_vars

(***************************************************************************)
(* The list and aggregation queries.  A stored timestamp is the text       *)
(* IsoFormat writes: its first digit is the date portion (a day is ten     *)
(* seconds of the model's clock), the rest the time of day.                *)
(***************************************************************************)
\* last day on which the store is opened
MaxDays == 2

TicksPerDay == 10 * TicksPerSecond

\* the instants at which the store is opened for querying
QueryInstants ==
    {d * TicksPerDay + k : d \in 0..MaxDays, k \in 0..(MaxTime + Hours(1))}

\* the store is opened at any of these instants
InitQuery ==
    /\ threats = {}
    /\ threats_fts = {}
    /\ cve_cache = {}
    /\ verification_cache = {}
    /\ feed_metrics = {}
    /\ now \in QueryInstants
    /\ ret = [op |-> "open"]
    /\ conns = 0
    /\ call = Idle
    /\ sqlite_master = InitDb(1, <<>>).master
    /\ sessions = NoSessions

\* (datetime.utcnow() - timedelta(hours=since_hours)).isoformat()
Since(t, since_hours) == IsoFormat(t - Hours(since_hours))

\* WHERE published_utc >= ?
PublishedSince(table, since) ==
    {r \in table : ~TextLess(r.published_utc, since)}

\* WHERE priority_level = ? AND published_utc >= ?, and without the first
\* condition when `if priority:` fails
PriorityRows(table, priority, since) ==
    {r \in PublishedSince(table, since) :
        (priority # None /\ priority[1] # "")
            => r.priority_level = priority[1]}

\* an order that ignores published_utc
ByRiskThenPublished_ignores_published(r1, r2) ==
    r1.risk_score >= r2.risk_score

\* ORDER BY risk_score DESC, published_utc DESC: r1 may stand before r2
ByRiskThenPublished(r1, r2) ==
    \/ r1.risk_score > r2.risk_score
    \/ /\ r1.risk_score = r2.risk_score
       /\ ~TextLess(r1.published_utc, r2.published_utc)

\* ORDER BY published_utc DESC: r1 may stand before r2
ByPublished(r1, r2) == ~TextLess(r1.published_utc, r2.published_utc)

\* the orders in which ORDER BY risk_score DESC, published_utc DESC can
\* deliver the rows
SortedByRisk(rows) ==
    {o \in Orderings(rows) :
        \A i, j \in 1..Cardinality(rows) :
            i < j => ByRiskThenPublished(o[i], o[j])}

\* the orders in which ORDER BY published_utc DESC can deliver the rows
SortedByPublished(rows) ==
    {o \in Orderings(rows) :
        \A i, j \in 1..Cardinality(rows) : i < j => ByPublished(o[i], o[j])}

\* fetchall(), LIMIT ?, and _row_to_threat on every row
Records(o, limit, t) ==
    [i \in 1..Len(Limit(o, limit)) |-> RowToThreat(o[i], t)]

get_threats_by_priority(priority, limit, since_hours) ==
    /\ now >= Hours(since_hours)
    /\ \E o \in SortedByRisk(PriorityRows(threats, priority,
                                          Since(now, since_hours))) :
            ret' = [op |-> "get_threats_by_priority", priority |-> priority,
                    limit |-> limit, since_hours |-> since_hours,
                    val |-> Records(o, limit, now)]
    /\ UNCHANGED <<threats, threats_fts, cve_cache, verification_cache,
                   feed_metrics, now, conns, call,
                   sqlite_master, sessions>>

\* a filter that lets every row through
KevRows_ignores_flag(table) == table

\* WHERE kev_listed = 1
KevRows(table) == {r \in table : r.kev_listed = 1}

get_kev_threats(limit) ==
    /\ \E o \in SortedByPublished(KevRows(threats)) :
            ret' = [op |-> "get_kev_threats", limit |-> limit,
                    val |-> Records(o, limit, now)]
    /\ UNCHANGED <<threats, threats_fts, cve_cache, verification_cache,
                   feed_metrics, now, conns, call,
                   sqlite_master, sessions>>

\* the letters of the model's labels that have two cases
LowerCase == <<"a", "d">>

UpperCase == <<"A", "D">>

\* LIKE compares ASCII letters without regard to case
Fold(c) ==
    IF \E i \in 1..Len(LowerCase) : LowerCase[i] = c
    THEN UpperCase[CHOOSE i \in 1..Len(LowerCase) : LowerCase[i] = c]
    ELSE c

\* text LIKE pattern: % stands for any run of characters, _ for any one
RECURSIVE Like(_, _)
Like(text, pattern) ==
    IF pattern = <<>> THEN text = <<>>
    ELSE IF Head(pattern) = "%"
    THEN \/ Like(text, Tail(pattern))
         \/ text # <<>> /\ Like(Tail(text), pattern)
    ELSE /\ text # <<>>
         /\ Head(pattern) = "_" \/ Fold(Head(text)) = Fold(Head(pattern))
         /\ Like(Tail(text), Tail(pattern))

\* a pattern without the quotes around the label
LabelPattern_unquoted(cj) == <<"%">> \o cj \o <<"%">>

\* f'%"{cj}"%'
LabelPattern(cj) == <<"%", "\"">> \o cj \o <<"\"", "%">>

\* WHERE affected_crown_jewels LIKE ? OR affected_crown_jewels LIKE ? ...
CrownJewelRows(table, crown_jewels) ==
    {r \in table :
        \E i \in 1..Len(crown_jewels) :
            Like(r.affected_crown_jewels, LabelPattern(crown_jewels[i]))}

\* with no label the WHERE clause is empty and the statement does not parse
get_threats_affecting_crown_jewels(crown_jewels, limit) ==
    /\ IF crown_jewels = <<>>
       THEN ret' = [op |-> "get_threats_affecting_crown_jewels",
                    crown_jewels |-> crown_jewels, limit |-> limit,
                    raised |-> TRUE, val |-> <<>>]
       ELSE \E o \in SortedByRisk(CrownJewelRows(threats, crown_jewels)) :
                ret' = [op |-> "get_threats_affecting_crown_jewels",
                        crown_jewels |-> crown_jewels, limit |-> limit,
                        raised |-> FALSE, val |-> Records(o, limit, now)]
    /\ UNCHANGED <<threats, threats_fts, cve_cache, verification_cache,
                   feed_metrics, now, conns, call,
                   sqlite_master, sessions>>

\* the 0.7 of `epss_score >= 0.7`, scores being scaled by ten
HighEpss == 7

PriorityLevels == {"critical", "high", "medium", "low", "watchlist"}

\* SELECT COUNT(*) ... WHERE epss_score >= 0.7 AND published_utc >= ?; a NULL
\* epss_score does not compare
HighEpssRows(table, since) ==
    {r \in PublishedSince(table, since) :
        r.epss_score # None /\ r.epss_score[1] >= HighEpss}

\* the dict get_threat_stats builds
ThreatStats(table, since) ==
    [critical_count |->
        Cardinality(PriorityRows(table, Some("critical"), since)),
     high_count |-> Cardinality(PriorityRows(table, Some("high"), since)),
     medium_count |->
        Cardinality(PriorityRows(table, Some("medium"), since)),
     low_count |-> Cardinality(PriorityRows(table, Some("low"), since)),
     watchlist_count |->
        Cardinality(PriorityRows(table, Some("watchlist"), since)),
     kev_count |-> Cardinality(KevRows(PublishedSince(table, since))),
     high_epss_count |-> Cardinality(HighEpssRows(table, since)),
     total_count |-> Cardinality(PublishedSince(table, since))]

get_threat_stats(since_hours) ==
    /\ now >= Hours(since_hours)
    /\ ret' = [op |-> "get_threat_stats", since_hours |-> since_hours,
               val |-> ThreatStats(threats, Since(now, since_hours))]
    /\ UNCHANGED <<threats, threats_fts, cve_cache, verification_cache,
                   feed_metrics, now, conns, call,
                   sqlite_master, sessions>>

\* a grouping by the whole timestamp
Date_whole_timestamp(text) == text

\* date(published_utc): the date portion of the text
Date(text) == SubSeq(text, 1, 1)

\* date('now', '-N days')
DateDaysAgo(t, days) == <<Digit((t \div TicksPerDay) - days)>>

\* one row of the GROUP BY date(published_utc)
TrendRow(rows, day) ==
    LET group == {r \in rows : Date(r.published_utc) = day}
    IN  [day |-> day, total |-> Cardinality(group),
         critical |->
            Cardinality({r \in group : r.priority_level = "critical"}),
         high |-> Cardinality({r \in group : r.priority_level = "high"}),
         kev |-> Cardinality(KevRows(group))]

\* the rows of get_threat_trends, ORDER BY day DESC
ThreatTrends(table, t, days) ==
    LET rows == PublishedSince(table, DateDaysAgo(t, days))
        groups == {TrendRow(rows, Date(r.published_utc)) : r \in rows}
    IN  CHOOSE o \in Orderings(groups) :
            \A i, j \in 1..Cardinality(groups) :
                i < j => TextLess(o[j].day, o[i].day)

get_threat_trends(days) ==
    /\ now \div TicksPerDay >= days
    /\ ret' = [op |-> "get_threat_trends", days |-> days,
               val |-> ThreatTrends(threats, now, days)]
    /\ UNCHANGED <<threats, threats_fts, cve_cache, verification_cache,
                   feed_metrics, now, conns, call,
                   sqlite_master, sessions>>

\* inputs of the query specification: three ids; the first is written with
\* the exploited flag and rewritten without it, the second is written with
\* ratings of the enumerations and with ratings outside them
QueryT1 ==
    [ThreatRecord(<<"t", "1">>) EXCEPT
        !.published_utc = 1, !.priority_level = "critical",
        !.risk_score = 91, !.kev_listed = TRUE, !.epss_score = Some(HighEpss),
        !.affected_crown_jewels = << <<"A", "D">> >>, !.dedupe_key = "k"]

QueryT1Cleared ==
    [QueryT1 EXCEPT !.kev_listed = FALSE, !.priority_level = "high",
                    !.epss_score = Some(HighEpss + 1), !.dedupe_key = ""]

QueryT2 ==
    [ThreatRecord(<<"t", "2">>) EXCEPT
        !.published_utc = 2, !.risk_score = 50, !.kev_listed = TRUE]

QueryT2Unrated ==
    [ThreatRecord(<<"t", "2">>) EXCEPT
        !.published_utc = TicksPerDay, !.risk_score = 50,
        !.priority_level = "urgent", !.admiralty_source_reliability = "Z"]

QueryT3 ==
    [ThreatRecord(<<"t", "3">>) EXCEPT
        !.published_utc = 0, !.priority_level = "critical",
        !.risk_score = 91, !.kev_listed = TRUE,
        !.affected_crown_jewels = << <<"R", "A", "D", "I", "U", "S">> >>]

QueryThreats == {QueryT1, QueryT1Cleared, QueryT2, QueryT2Unrated, QueryT3}

\* defaults of the limit parameters
DefaultPriorityLimit == 100

DefaultKevLimit == 50

\* the label lists asked for
CrownJewelQueries ==
    {<< <<"A", "D">> >>, << <<"a", "d">> >>,
     << <<"R", "A", "D", "I", "U", "S">>, <<"A", "D">> >>, <<>>}

NextQuery ==
    \/ \E threat \in QueryThreats : upsert_threat(threat)
    \/ \E priority \in {None, Some("critical")},
          limit \in {1, DefaultPriorityLimit}, since_hours \in {0, 1} :
            get_threats_by_priority(priority, limit, since_hours)
    \/ \E limit \in {1, DefaultKevLimit} : get_kev_threats(limit)
    \/ \E crown_jewels \in CrownJewelQueries :
            get_threats_affecting_crown_jewels(crown_jewels, DefaultKevLimit)
    \/ \E since_hours \in {0, 1} : get_threat_stats(since_hours)
    \/ \E days \in {0, 1} : get_threat_trends(days)

SpecQuery == InitQuery /\ [][NextQuery]_vars

(***************************************************************************)
(* The import of legacy snapshots (migrations.py, migrate_json_cache).  A  *)
(* JSON object is a record whose absent keys are None; an entry of a list  *)
(* that is not an object (null, a string) is None.                         *)
(***************************************************************************)
\* datetime.fromisoformat accepts the text
IsIsoText(s) ==
    /\ Len(s) \in {2, 4}
    /\ \A i \in {1, 2} : \E n \in 0..9 : DigitChars[n + 1] = s[i]
    /\ Len(s) = 4 =>
            (s[3] = "." /\ \E n \in 0..9 : DigitChars[n + 1] = s[4])

\* ThreatRecord.from_dict raises: data["id"] without the key, or a
\* published_utc that fromisoformat rejects
FromDictRaises(data) ==
    \/ data.id = None
    \/ data.published_utc # None /\ ~IsIsoText(data.published_utc[1])

\* ThreatRecord.from_dict on an object with the keys id, title and
\* published_utc at most
FromDict(data, t) ==
    [ThreatRecord(data.id[1]) EXCEPT
        !.source_name = <<>>,
        !.title = DictGet(data.title, <<>>),
        !.published_utc =
            IF data.published_utc # None
            THEN FromIsoFormat(data.published_utc[1]) ELSE t,
        !.collected_utc = t,
        !.search_content = DictGet(data.title, <<>>) \o <<" ", " ">>]

\* the loop over the threats of a snapshot.  The handler of a failed record
\* calls threat_data.get, which raises for an entry that is not an object
\* and ends the loop in the outer handler without a reported count.
RECURSIVE MigrateThreats(_, _, _, _)
MigrateThreats(entries, store, migrated, t) ==
    IF entries = <<>> THEN [store |-> store, migrated |-> Some(migrated)]
    ELSE IF Head(entries) = None THEN [store |-> store, migrated |-> None]
    ELSE IF FromDictRaises(Head(entries)[1])
    THEN MigrateThreats(Tail(entries), store, migrated, t)
    ELSE MigrateThreats(Tail(entries),
                        Upserted(store, FromDict(Head(entries)[1], t), t),
                        migrated + 1, t)

\* the threats part of migrate_json_cache: data.get("threats", []) raises
\* for a snapshot that is a list, before the list is looked at
MigratedThreats(doc, store, t) ==
    IF doc = None THEN [store |-> store, migrated |-> None]
    ELSE IF doc[1].form = "array" THEN [store |-> store, migrated |-> None]
    ELSE MigrateThreats(doc[1].entries, store, 0, t)

\* the loop over the items of the `verifications` object
RECURSIVE MigrateVerifications(_, _, _, _)
MigrateVerifications(items, table, migrated, t) ==
    IF items = <<>> THEN [table |-> table, migrated |-> Some(migrated)]
    ELSE IF Head(items).data = None
    THEN MigrateVerifications(Tail(items), table, migrated, t)
    ELSE MigrateVerifications(
            Tail(items),
            {r \in table : r.threat_id # Head(items).threat_id}
                \cup {VerificationRow(Head(items).threat_id,
                                      Head(items).data[1], t)},
            migrated + 1, t)

\* the FeedMetric built from an object with the keys url, name, last_check
\* and overall_score at most
FeedFromDict(data, t) ==
    [FeedMetric(DictGet(data.url, "")) EXCEPT
        !.feed_name = DictGet(data.name, ""),
        !.last_check =
            IF data.last_check # None
            THEN FromIsoFormat(data.last_check[1]) ELSE t,
        !.overall_score = DictGet(data.overall_score, 750)]

\* the loop over the feeds of a snapshot
RECURSIVE MigrateFeeds(_, _, _, _)
MigrateFeeds(entries, table, migrated, t) ==
    IF entries = <<>> THEN [table |-> table, migrated |-> Some(migrated)]
    ELSE IF \/ Head(entries) = None
            \/ /\ Head(entries)[1].last_check # None
               /\ ~IsIsoText(Head(entries)[1].last_check[1])
    THEN MigrateFeeds(Tail(entries), table, migrated, t)
    ELSE MigrateFeeds(Tail(entries),
                      UpdatedFeeds(table, FeedFromDict(Head(entries)[1], t)),
                      migrated + 1, t)

\* migrate_json_cache on a snapshot of three files, each present or absent;
\* the counts are the ones it reports
migrate_json_cache(snapshot) ==
    LET t == MigratedThreats(snapshot.threats, Store, now)
        v == IF snapshot.verifications = None
             THEN [table |-> verification_cache, migrated |-> None]
             ELSE MigrateVerifications(snapshot.verifications[1],
                                       verification_cache, 0, now)
        f == IF snapshot.feeds = None
             THEN [table |-> feed_metrics, migrated |-> None]
             ELSE MigrateFeeds(snapshot.feeds[1], feed_metrics, 0, now)
    IN  /\ threats' = t.store.threats
        /\ threats_fts' = t.store.threats_fts
        /\ verification_cache' = v.table
        /\ feed_metrics' = f.table
        /\ ret' = [op |-> "migrate_json_cache", snapshot |-> snapshot,
                   threats |-> t.migrated, verifications |-> v.migrated,
                   feeds |-> f.migrated]
        /\ UNCHANGED <<cve_cache, now, conns, call,
                       sqlite_master, sessions>>

\* entries of a threats snapshot: two records that convert, one without id,
\* one with a timestamp that does not parse, and one that is not an object
ThreatEntries ==
    {Some([id |-> Some(<<"t", "1">>), title |-> Some(<<"a">>),
           published_utc |-> None]),
     Some([id |-> Some(<<"t", "2">>), title |-> None,
           published_utc |-> Some(<<"0", "1">>)]),
     Some([id |-> None, title |-> Some(<<"b">>), published_utc |-> None]),
     Some([id |-> Some(<<"t", "3">>), title |-> None,
           published_utc |-> Some(<<"x">>)]),
     None}

\* sequences of at most two elements of a set
UpToTwo(S) == {<<>>} \cup {<<x>> : x \in S} \cup {<<x, y>> : x, y \in S}

ThreatDocs ==
    {[form |-> "object", entries |-> e] : e \in UpToTwo(ThreatEntries)}
    \cup {[form |-> "array", entries |-> e] :
            e \in {<<x>> : x \in ThreatEntries}}

VerificationDocs ==
    {<<[threat_id |-> <<"t", "1">>, data |-> d1],
       [threat_id |-> <<"t", "2">>, data |-> d2]>> :
        d1, d2 \in {None} \cup {Some(d) : d \in VerificationEntries}}

FeedEntries ==
    {Some([url |-> Some("u1"), name |-> Some("f"), last_check |-> None,
           overall_score |-> None]),
     Some([url |-> Some("u2"), name |-> None,
           last_check |-> Some(<<"0", "1">>), overall_score |-> Some(0)]),
     Some([url |-> Some("u2"), name |-> None,
           last_check |-> Some(<<"x">>), overall_score |-> None]),
     None}

FeedDocs == {<<x, y>> : x, y \in FeedEntries}

\* the snapshots given to the import: one file present, or all three
Snapshots ==
    {[threats |-> Some(d), verifications |-> None, feeds |-> None] :
        d \in ThreatDocs}
    \cup {[threats |-> None, verifications |-> Some(d), feeds |-> None] :
            d \in VerificationDocs}
    \cup {[threats |-> None, verifications |-> None, feeds |-> Some(d)] :
            d \in FeedDocs}

\* the import runs within one tick of the clock
NextImport ==
    \/ \E snapshot \in Snapshots : migrate_json_cache(snapshot)
    \/ \E id \in ThreatIds : get_threat(id)

SpecImport == Init /\ [][NextImport]_vars

(***************************************************************************)
(* Construction on a file that holds a schema and rows already.            *)
(***************************************************************************)
\* CacheDatabase(db_path): mkdir of the parent with exist_ok, then _init_db
\* runs its CREATE statements and commits; no statement touches a row
CacheDatabase ==
    /\ sqlite_master' = InitDb(1, sqlite_master).master
    /\ ret' = [op |-> "open", raised |-> InitDb(1, sqlite_master).raised]
    /\ UNCHANGED <<threats, threats_fts, cve_cache, verification_cache,
                   feed_metrics, now, conns, call, sessions>>

NextOpen ==
    \/ Tick
    \/ CacheDatabase
    \/ \E threat \in ConnThreats : upsert_threat(threat)
    \/ \E cve \in EngineCves, ttl \in Ttls : cache_cve(cve, ttl)
    \/ \E data \in VerificationEntries :
            migrate_verification(<<"t", "1">>, data)
    \/ update_feed_metrics(FeedMetric("u1"))

SpecOpen == Init /\ [][NextOpen]_vars

(***************************************************************************)
(* Calls that run at the same time, each on its own connection to the one  *)
(* file.  A session is the call in progress on one connection; the tables  *)
(* hold the committed state.  The file is in WAL mode: a statement that    *)
(* reads sees the committed state and waits for nobody, a statement that   *)
(* writes takes the one write lock or waits for it, and the wait ends in   *)
(* "database is locked" when it outlasts the timeout of sqlite3.connect.   *)
(* The statement of upsert_threat is taken apart into the write of the row *)
(* and the statements of the trigger it fires.                             *)
(***************************************************************************)
\* the sessions that hold the write lock: those with an open transaction
WriteLock ==
    {s \in Sessions : sessions[s].pc # "idle" /\ sessions[s].txn # None}

\* a file on which a writer waits for nobody
Blocked_never(s) == FALSE

\* the statement session s is about to run has to wait: it writes and
\* another connection holds the write lock
Blocked(s) ==
    sessions[s].op = "upsert_threat" /\ WriteLock \ {s} # {}

\* the call as it enters the `with` block; get_threat_stats has read the
\* clock for its `since` before
Started(op, arg, t) ==
    [pc |-> "execute", op |-> op, arg |-> arg, at |-> t, txn |-> None,
     old |-> None, new |-> None, stmt |-> 1, rows |-> {}, counts |-> <<>>]

\* a trigger that adds the new entry before it removes the old one
threats_au_statements_insert_first == <<"insert", "delete">>

\* the two statements of the trigger threats_au, in their order: the
\* 'delete' command with the old column values, then the INSERT of the new
threats_au_statements == <<"delete", "insert">>

\* the index after one statement of a trigger
TriggerStatement(fts, stmt, old, new) ==
    IF stmt = "delete" THEN threats_ad(fts, old) ELSE threats_ai(fts, new)

\* the count queries of get_threat_stats in the order they are executed,
\* named by the key each one fills
StatsStatements ==
    <<"critical_count", "high_count", "medium_count", "low_count",
      "watchlist_count", "kev_count", "high_epss_count", "total_count">>

\* the dict built from the counts in the order of the queries
StatsDict(counts) ==
    [key \in {StatsStatements[i] : i \in 1..Len(StatsStatements)} |->
        counts[CHOOSE i \in 1..Len(StatsStatements) :
                    StatsStatements[i] = key]]

\* a call starts on the connection of session s
Begin(s, op, arg) ==
    /\ sessions[s] = Idle
    /\ op = "get_threat_stats" => now >= Hours(arg)
    /\ sessions' = [sessions EXCEPT ![s] = Started(op, arg, now)]
    /\ UNCHANGED <<threats, threats_fts, cve_cache, verification_cache,
                   feed_metrics, now, ret, conns, call, sqlite_master>>

\* the INSERT ... ON CONFLICT(id) DO UPDATE of upsert_threat takes the write
\* lock and writes the row; the trigger of the branch taken is still to run
Insert(s) ==
    LET c == sessions[s]
        p == ThreatParams(c.arg)
        hit == ThreatRows(threats, c.arg.id)
        old == CHOOSE r \in hit : TRUE
        new == IF hit = {} THEN InsertedRow(threats, p, now)
               ELSE UpdatedRow(old, p, now)
    IN  /\ c.pc = "execute" /\ c.op = "upsert_threat"
        /\ ~Blocked(s)
        /\ hit = {} => NextRowid(threats) <= MaxRowid
        /\ sessions' =
            [sessions EXCEPT ![s] =
                [c EXCEPT
                    !.pc = IF hit = {} THEN "threats_ai" ELSE "threats_au",
                    !.at = now,
                    !.txn = Some([Store EXCEPT
                                    !.threats = (@ \ hit) \cup {new}]),
                    !.old = IF hit = {} THEN None ELSE Some(old),
                    !.new = Some(new)]]
        /\ UNCHANGED <<threats, threats_fts, cve_cache, verification_cache,
                       feed_metrics, now, ret, conns, call, sqlite_master>>

\* the next statement of the trigger fired by the INSERT or the UPDATE
Trigger(s) ==
    LET c == sessions[s]
        au == c.pc = "threats_au"
        stmt == IF au THEN threats_au_statements[c.stmt] ELSE "insert"
        last == ~au \/ c.stmt = Len(threats_au_statements)
    IN  /\ c.pc \in {"threats_ai", "threats_au"}
        /\ sessions' =
            [sessions EXCEPT ![s] =
                [c EXCEPT
                    !.pc = IF last THEN "commit" ELSE @,
                    !.stmt = IF last THEN 1 ELSE @ + 1,
                    !.txn = Some([c.txn[1] EXCEPT
                                    !.threats_fts =
                                        IF au
                                        THEN TriggerStatement(@, stmt,
                                                c.old[1], c.new[1])
                                        ELSE threats_ai(@, c.new[1])])]]
        /\ UNCHANGED <<threats, threats_fts, cve_cache, verification_cache,
                       feed_metrics, now, ret, conns, call, sqlite_master>>

\* conn.commit() of upsert_threat: the transaction becomes the committed
\* state and the write lock is free
CommitWrite(s) ==
    LET c == sessions[s]
    IN  /\ c.pc = "commit"
        /\ threats' = c.txn[1].threats
        /\ threats_fts' = c.txn[1].threats_fts
        /\ sessions' = [sessions EXCEPT
                            ![s] = [c EXCEPT !.pc = "return", !.txn = None]]
        /\ UNCHANGED <<cve_cache, verification_cache, feed_metrics, now, ret,
                       conns, call, sqlite_master>>

\* the SELECT of get_threat and its fetchone
Select(s) ==
    LET c == sessions[s]
    IN  /\ c.pc = "execute" /\ c.op = "get_threat"
        /\ ~Blocked(s)
        /\ sessions' = [sessions EXCEPT
                            ![s] = [c EXCEPT
                                        !.pc = "return",
                                        !.rows = ThreatRows(threats, c.arg)]]
        /\ UNCHANGED <<threats, threats_fts, cve_cache, verification_cache,
                       feed_metrics, now, ret, conns, call, sqlite_master>>

\* the next count query of get_threat_stats; each is a statement of its own
\* and reads what is committed when it runs
CountQuery(s) ==
    LET c == sessions[s]
        key == StatsStatements[c.stmt]
        last == c.stmt = Len(StatsStatements)
    IN  /\ c.pc = "execute" /\ c.op = "get_threat_stats"
        /\ ~Blocked(s)
        /\ sessions' =
            [sessions EXCEPT ![s] =
                [c EXCEPT
                    !.pc = IF last THEN "return" ELSE @,
                    !.stmt = IF last THEN 1 ELSE @ + 1,
                    !.counts =
                        Append(@, ThreatStats(threats,
                                              Since(c.at, c.arg))[key])]]
        /\ UNCHANGED <<threats, threats_fts, cve_cache, verification_cache,
                       feed_metrics, now, ret, conns, call, sqlite_master>>

\* the call returns and its connection is closed
Finish(s) ==
    LET c == sessions[s]
    IN  /\ c.pc = "return"
        /\ ret' = [op |-> c.op, arg |-> c.arg, session |-> s,
                   raised |-> FALSE,
                   val |-> IF c.op = "get_threat"
                           THEN (IF c.rows = {} THEN None
                                 ELSE Some(RowToThreat(
                                        CHOOSE r \in c.rows : TRUE, now)))
                           ELSE IF c.op = "get_threat_stats"
                           THEN StatsDict(c.counts)
                           ELSE TRUE]
        /\ sessions' = [sessions EXCEPT ![s] = Idle]
        /\ UNCHANGED <<threats, threats_fts, cve_cache, verification_cache,
                       feed_metrics, now, conns, call, sqlite_master>>

\* the wait for the write lock outlasts the timeout: the statement raises
\* "database is locked", the connection is closed and nothing was written
BusyTimeout(s) ==
    LET c == sessions[s]
    IN  /\ c.pc = "execute"
        /\ Blocked(s)
        /\ ret' = [op |-> c.op, arg |-> c.arg, session |-> s,
                   raised |-> TRUE, val |-> None]
        /\ sessions' = [sessions EXCEPT ![s] = Idle]
        /\ UNCHANGED <<threats, threats_fts, cve_cache, verification_cache,
                       feed_metrics, now, conns, call, sqlite_master>>

\* the record each writer stores: the same id, another title and priority
WriterThreat(s) ==
    IF s = "w1" THEN ThreatRecord(<<"t", "1">>)
    ELSE [ThreatRecord(<<"t", "1">>) EXCEPT
            !.title = <<"a", " ", "b">>, !.priority_level = "high"]

NextWriters ==
    \/ Tick
    \/ \E s \in {"w1", "w2"} : Begin(s, "upsert_threat", WriterThreat(s))
    \/ Begin("r", "get_threat", <<"t", "1">>)
    \/ \E s \in Sessions : Insert(s)
    \/ \E s \in Sessions : Trigger(s)
    \/ \E s \in Sessions : CommitWrite(s)
    \/ \E s \in Sessions : Select(s)
    \/ \E s \in Sessions : Finish(s)
    \/ \E s \in Sessions : BusyTimeout(s)

SpecWriters == Init /\ [][NextWriters]_vars

\* get_threat_stats on one connection while other connections commit whole
\* calls of upsert_threat
NextStats ==
    \/ \E since_hours \in {0, 1} :
            Begin("r", "get_threat_stats", since_hours)
    \/ CountQuery("r")
    \/ Finish("r")
    \/ \E threat \in {QueryT1, QueryT1Cleared, QueryT2} :
            upsert_threat(threat)

SpecStats == InitQuery /\ [][NextStats]_vars

(***************************************************************************)
(* Claims about upsert_threat and get_threat.                              *)
(***************************************************************************)
\* a ThreatRecord with its timestamps cut to whole seconds
SecondPrecision(rec) ==
    [rec EXCEPT !.published_utc = @ \div TicksPerSecond,
                !.collected_utc = @ \div TicksPerSecond,
                !.verification_timestamp =
                    IF @ = None THEN None ELSE Some(@[1] \div TicksPerSecond)]

\* a step of upsert_threat that found no row with the id of its argument
InsertStep ==
    /\ ret'.op = "upsert_threat"
    /\ ThreatRows(threats, ret'.arg.id) = {}

\* a step of upsert_threat that found a row with the id of its argument
ConflictStep ==
    /\ ret'.op = "upsert_threat"
    /\ ThreatRows(threats, ret'.arg.id) # {}

\* C1: when upsert_threat(r2) meets a row with r2's id, the row afterwards
\* holds r2's value in every column and keeps only its created_at.
C1_ConflictOverwritesEveryColumn ==
    [][ConflictStep =>
        \A old \in ThreatRows(threats, ret'.arg.id) :
        \A new \in ThreatRows(threats', ret'.arg.id) :
            /\ \A c \in ThreatColumns : new[c] = ThreatParams(ret'.arg)[c]
            /\ new.created_at = old.created_at]_vars

\* C2: when no row with r.id exists, upsert_threat(r) followed by
\* get_threat(r.id) returns a record equal to r in every field, timestamps
\* compared to the second.
C2_RoundTripEveryField ==
    [][InsertStep =>
        /\ GetThreat(threats', ret'.arg.id, now') # None
        /\ SecondPrecision(GetThreat(threats', ret'.arg.id, now')[1])
                = SecondPrecision(ret'.arg)]_vars

\* the fields in which two records differ
DiffFields(r1, r2, fields) == {f \in fields : r1[f] # r2[f]}

\* C3: an upsert_threat on an existing id leaves exactly one row with that
\* id; when the record written differs in at most one field from the record
\* get_threat returned before, get_threat afterwards differs from before in
\* exactly that field, created_at is unchanged and updated_at is not earlier.
C3_UpsertIdempotence ==
    [][ConflictStep =>
        LET threat == ret'.arg
            before == GetThreat(threats, threat.id, now)[1]
            after == GetThreat(threats', threat.id, now')[1]
            changed == DiffFields(before, threat, ThreatColumns)
        IN  /\ Cardinality(ThreatRows(threats', threat.id)) = 1
            /\ Cardinality(changed) <= 1 =>
                    DiffFields(before, after, ThreatColumns) = changed
            /\ \A old \in ThreatRows(threats, threat.id) :
               \A new \in ThreatRows(threats', threat.id) :
                    /\ new.created_at = old.created_at
                    /\ ~TextLess(new.updated_at, old.updated_at)]_vars

(***************************************************************************)
(* Claims about the full-text index.                                       *)
(***************************************************************************)
IsSubstring(q, text) == q \in Substrings(text)

\* how often a record with the given id occurs in a result list
Hits(list, id) == Cardinality({i \in 1..Len(list) : list[i].id = id})

\* the tokens of the indexed columns of a threats row
RowTokens(row) == EntryTokens(FtsEntry(row))

C5_IndexMirrorsTable ==
    /\ threats_fts = {FtsEntry(r) : r \in threats}
    /\ \A e1, e2 \in threats_fts : e1.rowid = e2.rowid => e1 = e2
    /\ \A r1, r2 \in threats : r1.rowid = r2.rowid => r1 = r2

\* the row with rowid 1 was deleted and the row with rowid 2 has just been
\* rewritten by a conflicting upsert
C5_Witness ==
    /\ ret.op = "upsert_threat"
    /\ \A x \in threats : x.rowid # 1
    /\ \E r \in threats :
        /\ r.id = ret.arg.id /\ r.rowid = 2
        /\ r.title = <<"b">>
        /\ threats_fts = {FtsEntry(r)}

(***************************************************************************)
(* Claims about the CVE cache and the expiry sweep.                        *)
(***************************************************************************)
\* the instants a cache_expires can hold
Instants == 0..(MaxTime + Hours(1))

\* the row's cache_expires is the timestamp of instant e
ExpiresAt(row, e) == row.cache_expires = Some(IsoFormat(e))

\* C6: get_cve(id) returns a record exactly when a row with that id exists
\* whose cache_expires is unset or strictly later than the current time;
\* for an expired row it returns what it returns for an id never cached.
C6_ReadableIffUnexpired ==
    ret.op = "get_cve" =>
        /\ ret.val # None <=>
                \E r \in CveRows(cve_cache, ret.arg) :
                    \/ r.cache_expires = None
                    \/ \E e \in Instants : ExpiresAt(r, e) /\ e > now
        /\ ret.val # None => ret.val[1].cve_id = ret.arg
        /\ ret.val = None => ret.val = GetCve({}, ret.arg, now)

\* get_cve finds an expired row and returns None while another id is readable
C6_Witness ==
    /\ ret.op = "get_cve" /\ ret.val = None
    /\ CveRows(cve_cache, ret.arg) # {}
    /\ \E r \in cve_cache :
            r.cve_id # ret.arg /\ GetCve(cve_cache, r.cve_id, now) # None

\* C7: a get_cve that directly follows cache_cve(c, ttl_hours=0), the clock
\* not having advanced, returns None.
C7_TtlZeroUnreadable ==
    [][(/\ ret.op = "cache_cve" /\ ret.ttl_hours = 0
        /\ ret'.op = "get_cve" /\ ret'.arg = ret.arg.cve_id)
            => (now' = now /\ ret'.val = None)]_vars

\* get_cve returned None for a row written with ttl_hours=0 at this instant
C7_Witness ==
    /\ ret.op = "get_cve" /\ ret.val = None
    /\ \E r \in CveRows(cve_cache, ret.arg) :
            /\ ExpiresAt(r, now)
            /\ r.cached_at = CurrentTimestamp(now)

\* C8: cache_cve at t0 with TTL T > 0 stores the expiry t0+T; a row is
\* returned by get_cve at every time before its expiry and by none from the
\* expiry on; a row stays stored until cache_cve rewrites it or a sweep
\* later than its expiry runs, and after such a sweep it is absent.
C8_Lifecycle ==
    [][/\ (ret'.op = "cache_cve" /\ ret'.ttl_hours > 0) =>
            \A r \in CveRows(cve_cache', ret'.arg.cve_id) :
                ExpiresAt(r, now + Hours(ret'.ttl_hours))
       /\ \A r \in cve_cache' : \A e \in Instants :
            ExpiresAt(r, e) =>
                (GetCve(cve_cache', r.cve_id, now') # None <=> now' < e)
       /\ \A r \in cve_cache :
            \/ r \in cve_cache'
            \/ ret'.op = "cache_cve" /\ ret'.arg.cve_id = r.cve_id
            \/ /\ ret'.op = "cleanup_expired"
               /\ \E e \in Instants : ExpiresAt(r, e) /\ e < now
       /\ ret'.op = "cleanup_expired" =>
            \A r \in cve_cache : \A e \in Instants :
                (ExpiresAt(r, e) /\ e < now) =>
                    CveRows(cve_cache', r.cve_id) = {}]_vars

\* a sweep has just removed a row that was cached with a TTL of an hour
C8_Witness ==
    /\ ret.op = "cleanup_expired"
    /\ \E r \in ret.deleted :
        /\ CveRows(cve_cache, r.cve_id) = {}
        /\ FromIsoFormat(r.cache_expires[1]) - FromIsoFormat(r.cached_at)
                >= Hours(1)

\* the rows of a cache table whose cache_expires is set and strictly
\* earlier than instant t
ExpiredBefore(table, t) ==
    {r \in table : \E e \in Instants : ExpiresAt(r, e) /\ e < t}

\* C9: cleanup_expired at time T removes from cve_cache and from
\* verification_cache exactly the rows whose cache_expires is set and
\* strictly earlier than T and leaves every other row as it was.
C9_SweepRemovesExactlyExpired ==
    [][ret'.op = "cleanup_expired" =>
        /\ cve_cache' = cve_cache \ ExpiredBefore(cve_cache, now)
        /\ verification_cache' =
                verification_cache \ ExpiredBefore(verification_cache, now)]_vars

\* a sweep removed a row and kept a row that expires at this very instant
\* and a verification row without expiry
C9_Witness ==
    /\ ret.op = "cleanup_expired" /\ ret.deleted # {}
    /\ \E r \in cve_cache : ExpiresAt(r, now)
    /\ \E v \in verification_cache : v.cache_expires = None

(***************************************************************************)
(* Claims about the frame of the engine's operations.                      *)
(***************************************************************************)
\* C10: no operation of the engine removes a threats row or a feed_metrics
\* row, so the stored threat ids and feed urls only grow; cleanup_expired
\* and vacuum leave threats, the full-text index and feed_metrics unchanged.
C10_ThreatsAndFeedsOnlyGrow ==
    [][/\ {r.id : r \in threats} \subseteq {r.id : r \in threats'}
       /\ {r.rowid : r \in threats} \subseteq {r.rowid : r \in threats'}
       /\ {r.feed_url : r \in feed_metrics}
                \subseteq {r.feed_url : r \in feed_metrics'}
       /\ ret'.op \in {"cleanup_expired", "vacuum"} =>
                UNCHANGED <<threats, threats_fts, feed_metrics,
                            sqlite_master, sessions>>]_vars

\* a sweep removed a cache row while both threats and both feeds are stored
C10_Witness ==
    /\ ret.op = "cleanup_expired" /\ ret.deleted # {}
    /\ {r.id : r \in threats} = ThreatIds
    /\ {r.feed_url : r \in feed_metrics} = FeedUrls
    /\ threats_fts # {}

(***************************************************************************)
(* Claims about scoped connections and transactions.                       *)
(***************************************************************************)
\* a step that ends the call in progress with an exception
RaiseStep == call.pc # "idle" /\ call'.pc = "idle" /\ ret'.raised

\* C11: the index change of upsert_threat is committed together with the
\* change of the threats row: after every step the committed index holds
\* exactly the entries built from the committed rows, the committed row and
\* index change only in the commit of the call, a call that raises leaves
\* both as they were, and a search by another connection returns only
\* records whose committed row holds the words of the query.
C11_IndexChangeAtomic ==
    [][/\ threats_fts' = {FtsEntry(r) : r \in threats'}
       /\ (threats' # threats \/ threats_fts' # threats_fts) =>
            /\ call.pc = "commit" /\ call.op = "upsert_threat"
            /\ call'.pc = "return"
            /\ \E r \in threats' :
                /\ r.id = call.arg.id
                /\ r.title = call.arg.title
                /\ FtsEntry(r) \in threats_fts'
       /\ (RaiseStep /\ call.op = "upsert_threat") =>
            UNCHANGED <<threats, threats_fts,
                        sqlite_master, sessions>>
       /\ (ret' # ret /\ ret'.op = "search_threats") =>
            \A i \in 1..Len(ret'.val) :
                \E r \in threats :
                    /\ ret'.val[i] = RowToThreat(r, now)
                    /\ Tokens(ret'.query) \subseteq RowTokens(r)]_vars

\* an upsert_threat that changes the title of the stored row has raised at
\* its commit, and the row and the index entry still carry the old title
C11_Witness ==
    /\ ret.op = "upsert_threat" /\ ret.raised /\ ret.step = "commit"
    /\ \E r \in threats :
        /\ r.id = ret.arg.id
        /\ r.title # ret.arg.title
        /\ threats_fts = {FtsEntry(r)}

\* C14: every operation releases the connection it acquired on every exit
\* path: when no call is in progress no connection is open, and a call in
\* progress holds exactly its own.
C14_ConnectionsReleased ==
    conns = (IF call.pc = "idle" THEN 0 ELSE 1)

\* the positions of a call, in the order it passes them
Position(pc) ==
    CHOOSE i \in 1..5 :
        <<"configure", "execute", "execute2", "commit", "return">>[i] = pc

\* C20: a cleanup_expired that fails raises to its caller and is not
\* started again; no step of the call changes threats, the index or
\* feed_metrics; its only step that changes a cache table is the commit,
\* which removes from both tables exactly the rows that had expired when
\* the call read the clock, so no DELETE is left applied in part.
C20_SweepFailureLeavesNoPartialDelete ==
    [][(call' # call /\ call.pc # "idle" /\ call.op = "cleanup_expired") =>
        /\ UNCHANGED <<threats, threats_fts, feed_metrics,
                       sqlite_master, sessions>>
        /\ \/ call'.pc = "idle"
           \/ Position(call'.pc) = Position(call.pc) + 1
        /\ RaiseStep =>
            /\ UNCHANGED <<cve_cache, verification_cache,
                           sqlite_master, sessions>>
            /\ ret'.op = "cleanup_expired"
        /\ \/ UNCHANGED <<cve_cache, verification_cache,
                          sqlite_master, sessions>>
           \/ /\ call.pc = "commit" /\ call'.pc = "return"
              /\ cve_cache' = cve_cache \ ExpiredBefore(cve_cache, call.at)
              /\ verification_cache' =
                    verification_cache
                        \ ExpiredBefore(verification_cache, call.at)]_vars

\* cleanup_expired has raised at its commit, after both DELETE statements,
\* and the row that had expired before the call is still stored
C20_Witness ==
    /\ ret.op = "cleanup_expired" /\ ret.raised /\ ret.step = "commit"
    /\ ExpiredBefore(cve_cache, ret.at) # {}

(***************************************************************************)
(* Claims about the list and aggregation queries.                          *)
(***************************************************************************)
\* the instant a row's published_utc stands for
PublishedAt(row) == FromIsoFormat(row.published_utc)

\* published within the last h hours before instant t
WithinLastHours(published, h, t) ==
    t - Hours(h) <= published /\ published <= t

\* published h hours before instant t or later
NotBefore(published, h, t) == t - Hours(h) <= published

\* record a may stand before record b in the order of the filtered list
RiskOrder(a, b) ==
    \/ a.risk_score > b.risk_score
    \/ a.risk_score = b.risk_score /\ a.published_utc >= b.published_utc

Min(a, b) == IF a <= b THEN a ELSE b

\* the last result is the filtered list of the rows of the asked priority
\* whose published timestamp is in the window, which ends at the call or is
\* open to the future: only such rows, each once, in the order of risk and
\* then published timestamp, and the first `limit` of that order
PriorityListing(open) ==
    ret.op = "get_threats_by_priority" =>
        LET val == ret.val
            qualifying ==
                {r \in threats :
                    /\ ret.priority # None
                            => r.priority_level = ret.priority[1]
                    /\ IF open
                       THEN NotBefore(PublishedAt(r), ret.since_hours, now)
                       ELSE WithinLastHours(PublishedAt(r), ret.since_hours,
                                            now)}
        IN  /\ \A i \in 1..Len(val) :
                    \E r \in qualifying : val[i] = RowToThreat(r, now)
            /\ \A i, j \in 1..Len(val) :
                    /\ i < j => RiskOrder(val[i], val[j])
                    /\ i # j => val[i].id # val[j].id
            /\ Len(val) = Min(ret.limit, Cardinality(qualifying))
            /\ \A r \in qualifying :
                    Hits(val, r.id) = 0 =>
                        \A i \in 1..Len(val) :
                            RiskOrder(val[i], RowToThreat(r, now))

\* C12 as claimed: get_threats_by_priority(p, limit, h) returns only records
\* of priority p (all when p is not given) published within the last h
\* hours, by risk_score descending and then published timestamp descending,
\* cut to the first limit records of that order.
C12_WithinLastHours == PriorityListing(FALSE)

\* C12 as amended: the same with the window open to the future: the records
\* published h hours before the call or later, those dated after the call
\* included.
C12_PublishedNotBefore == PriorityListing(TRUE)

\* of three records with risk 9.1, 5.0, 9.1 the later published 9.1 record
\* came first and the 5.0 record last
C12_Witness ==
    /\ ret.op = "get_threats_by_priority"
    /\ Len(ret.val) = 3
    /\ ret.val[1].risk_score = 91 /\ ret.val[2].risk_score = 91
    /\ ret.val[3].risk_score = 50
    /\ ret.val[1].published_utc > ret.val[2].published_utc
    /\ ret.val[3].published_utc > ret.val[1].published_utc

\* C13: get_kev_threats never returns a record whose stored kev_listed is
\* false, a record rewritten with the flag cleared included, and returns
\* its records by published timestamp descending whatever their risk_score.
C13_KevFilterPurity ==
    ret.op = "get_kev_threats" =>
        /\ \A i \in 1..Len(ret.val) :
            /\ ret.val[i].kev_listed
            /\ \E r \in threats :
                    r.kev_listed = 1 /\ ret.val[i] = RowToThreat(r, now)
        /\ \A i, j \in 1..Len(ret.val) :
                i < j => ret.val[i].published_utc >= ret.val[j].published_utc

\* the record written with the flag and rewritten without it is stored and
\* not returned, and a record of risk 5.0 came before an earlier published
\* record of risk 9.1
C13_Witness ==
    /\ ret.op = "get_kev_threats"
    /\ \E r \in threats :
        /\ r.dedupe_key = "k" /\ r.kev_listed = 0
        /\ Hits(ret.val, r.id) = 0
    /\ Len(ret.val) = 2
    /\ ret.val[1].risk_score < ret.val[2].risk_score

\* a text with every letter folded to one case
FoldText(text) == [i \in 1..Len(text) |-> Fold(text[i])]

\* the labels stored in a row
Labels(row) == JsonLoads(row.affected_crown_jewels)

\* C15 as claimed: a queried label matches where it is a substring of the
\* serialized label list, so a query for AD returns a record whose only
\* label is RADIUS.
C15_SubstringContainment ==
    (ret.op = "get_threats_affecting_crown_jewels" /\ ~ret.raised) =>
        \A r \in threats :
            (\E k \in 1..Len(ret.crown_jewels) :
                IsSubstring(ret.crown_jewels[k], r.affected_crown_jewels))
                    => Hits(ret.val, r.id) = 1

\* C15 as amended: a queried label made of letters matches a record exactly
\* when the record stores a label equal to it up to the case of the letters:
\* a query for AD returns the record labelled AD and not the record whose
\* only label is RADIUS.
C15_WholeLabelMatch ==
    (ret.op = "get_threats_affecting_crown_jewels" /\ ~ret.raised) =>
        \A r \in threats :
            Hits(ret.val, r.id) =
                IF \E k \in 1..Len(ret.crown_jewels) :
                   \E m \in 1..Len(Labels(r)) :
                        FoldText(Labels(r)[m]) = FoldText(ret.crown_jewels[k])
                THEN 1 ELSE 0

\* a query for AD returned the record labelled AD and left out the stored
\* record whose only label is RADIUS
C15_Witness ==
    /\ ret.op = "get_threats_affecting_crown_jewels" /\ ~ret.raised
    /\ ret.crown_jewels = << <<"A", "D">> >>
    /\ \E r1, r2 \in threats :
        /\ Labels(r1) = << <<"A", "D">> >> /\ Hits(ret.val, r1.id) = 1
        /\ Labels(r2) = << <<"R", "A", "D", "I", "U", "S">> >>
        /\ Hits(ret.val, r2.id) = 0

\* C16: get_threat_stats(h) counts, over the records published within the
\* last h hours, the records of each of the five priorities, the records
\* with kev_listed set, the records whose epss_score is strictly greater
\* than 0.7, and all records.
C16_StatsCounts ==
    ret.op = "get_threat_stats" =>
        LET window ==
                {r \in threats :
                    WithinLastHours(PublishedAt(r), ret.since_hours, now)}
            Count(level) ==
                Cardinality({r \in window : r.priority_level = level})
        IN  /\ ret.val.critical_count = Count("critical")
            /\ ret.val.high_count = Count("high")
            /\ ret.val.medium_count = Count("medium")
            /\ ret.val.low_count = Count("low")
            /\ ret.val.watchlist_count = Count("watchlist")
            /\ ret.val.kev_count =
                    Cardinality({r \in window : r.kev_listed = 1})
            /\ ret.val.high_epss_count =
                    Cardinality({r \in window :
                        r.epss_score # None /\ r.epss_score[1] > HighEpss})
            /\ ret.val.total_count = Cardinality(window)

\* the day a row was published on
PublishedDay(row) == PublishedAt(row) \div TicksPerDay

Reliabilities == {"A", "B", "C", "D", "E", "F"}

\* C18: upsert_threat rejects a priority_level outside the five levels and a
\* source reliability outside A-F before any write, so every stored threat
\* has ratings of the enumerations.
C18_StoredRatingsEnumerated ==
    \A r \in threats :
        /\ r.priority_level \in PriorityLevels
        /\ r.admiralty_source_reliability \in Reliabilities

(***************************************************************************)
(* Claims about the import of legacy snapshots.                            *)
(***************************************************************************)
\* the positions of the entries of a threats document that convert
Convertible(doc) ==
    {i \in 1..Len(doc.entries) :
        doc.entries[i] # None /\ ~FromDictRaises(doc.entries[i][1])}

\* C19: a record of a snapshot that fails is skipped and the batch goes on:
\* after migrate_json_cache every valid record of the threats object, the
\* verification object and the feed list is stored, and each reported count
\* is the number of records of that snapshot that were written.
C19_BadRecordSkipped ==
    ret.op = "migrate_json_cache" =>
        /\ (/\ ret.snapshot.threats # None
            /\ ret.snapshot.threats[1].form = "object") =>
            LET doc == ret.snapshot.threats[1]
            IN  /\ \A i \in Convertible(doc) :
                        ThreatRows(threats, doc.entries[i][1].id[1]) # {}
                /\ ret.threats # None =>
                        ret.threats = Some(Cardinality(Convertible(doc)))
        /\ ret.snapshot.verifications # None =>
            LET items == ret.snapshot.verifications[1]
                objects == {i \in 1..Len(items) : items[i].data # None}
            IN  /\ \A i \in objects :
                        \E r \in verification_cache :
                            r.threat_id = items[i].threat_id
                /\ ret.verifications = Some(Cardinality(objects))
        /\ ret.snapshot.feeds # None =>
            LET entries == ret.snapshot.feeds[1]
                valid ==
                    {i \in 1..Len(entries) :
                        /\ entries[i] # None
                        /\ entries[i][1].last_check # None
                                => IsIsoText(entries[i][1].last_check[1])}
            IN  /\ \A i \in valid :
                        FeedRows(feed_metrics,
                                 DictGet(entries[i][1].url, "")) # {}
                /\ ret.feeds = Some(Cardinality(valid))

(***************************************************************************)
(* C21, checked on Spec.                                                   *)
(***************************************************************************)
\* the step is a call of update_feed_metrics
FeedUpdateStep == ret'.op = "update_feed_metrics"

\* the step is a call of get_all_feed_metrics that follows a call of
\* update_feed_metrics, the most recent call for the url of its argument
FeedReadStep ==
    ret.op = "update_feed_metrics" /\ ret'.op = "get_all_feed_metrics"

\* C21: feed_metrics holds one row per feed_url, a call of
\* update_feed_metrics leaves the rows of the other urls as they are, and
\* get_all_feed_metrics returns one FeedMetric per stored url, the one for
\* the url of the most recent update equal to the argument of that update
\* in every field, counts and scores of 0 included.
C21_LatestSnapshotPerFeed ==
    [][/\ FeedUpdateStep =>
            /\ Cardinality(FeedRows(feed_metrics', ret'.arg.feed_url)) = 1
            /\ \A url \in FeedUrls \ {ret'.arg.feed_url} :
                    FeedRows(feed_metrics', url) = FeedRows(feed_metrics, url)
       /\ FeedReadStep =>
            /\ Len(ret'.val) = Cardinality(feed_metrics)
            /\ \A url \in FeedUrls :
                    Cardinality({i \in 1..Len(ret'.val) :
                                    ret'.val[i].feed_url = url}) <= 1
            /\ \E i \in 1..Len(ret'.val) : ret'.val[i] = ret.arg]_vars

(***************************************************************************)
(* C23, checked on SpecCache.                                              *)
(***************************************************************************)
\* the data columns of cve_cache: every column but the creation timestamp
\* and the expiry
CveDataColumns == CveColumns \ {"cached_at", "cache_expires"}

\* C23: after cache_cve(c, ttl), whether or not a row for the cve_id was
\* stored before, the one row of that cve_id holds the value of c in every
\* data column, kev_date_added, kev_due_date, published_date and
\* last_modified included, and expires at the time of the call plus ttl.
C23_SecondWriteWinsEveryColumn ==
    ret.op = "cache_cve" =>
        /\ Cardinality(CveRows(cve_cache, ret.arg.cve_id)) = 1
        /\ \A row \in CveRows(cve_cache, ret.arg.cve_id) :
            /\ \A c \in CveDataColumns :
                    row[c] = CveParams(ret.arg, <<>>)[c]
            /\ ExpiresAt(row, now + Hours(ret.ttl_hours))

(***************************************************************************)
(* C24, checked on SpecOpen.                                               *)
(***************************************************************************)
\* the number of schema objects of a name
Created(master, name) ==
    Cardinality({i \in 1..Len(master) : master[i].name = name})

\* C24: every construction on the initialized file raises nothing, leaves
\* the schema with exactly one object of each name, the objects it had, and
\* leaves every row of the five tables as it was.
C24_ConstructionIdempotent ==
    [][ret'.op = "open" =>
        /\ ret' = [op |-> "open", raised |-> FALSE]
        /\ sqlite_master' = sqlite_master
        /\ \A i \in 1..Len(SchemaObjects) :
                Created(sqlite_master', SchemaObjects[i].name) = 1
        /\ UNCHANGED <<threats, threats_fts, cve_cache, verification_cache,
                       feed_metrics>>]_vars

\* a construction has returned on a file with rows in every table
C24_Witness ==
    /\ ret = [op |-> "open", raised |-> FALSE]
    /\ threats # {} /\ threats_fts # {} /\ cve_cache # {}
    /\ verification_cache # {} /\ feed_metrics # {}

(***************************************************************************)
(* C26, checked on SpecCache.                                              *)
(***************************************************************************)
\* get_cve at instant t finds nothing for the row: readers reject it
Rejected(row, t) == GetCve({row}, row.cve_id, t) = None

\* C26 as stated: right after a sweep at T the rows it removed are the rows
\* readers reject at T, so no stored row is rejected at T.
C26_SweepRemovesWhatReadersReject ==
    ret.op = "cleanup_expired" =>
        /\ \A row \in ret.deleted : Rejected(row, now)
        /\ \A row \in cve_cache : ~Rejected(row, now)

\* C26 as the code has it: right after a sweep at T every removed row is one
\* readers reject at T, and a stored row readers reject at T is a row whose
\* cache_expires is T exactly; such a row is rejected by readers and kept by
\* the sweep.
C26_SweepKeepsRowExpiringNow ==
    ret.op = "cleanup_expired" =>
        /\ \A row \in ret.deleted : Rejected(row, now)
        /\ \A row \in cve_cache : Rejected(row, now) <=> ExpiresAt(row, now)

\* a sweep has removed one row and kept another that expires at the instant
\* of the sweep
C26_Witness ==
    /\ ret.op = "cleanup_expired"
    /\ ret.deleted # {}
    /\ \E row \in cve_cache : ExpiresAt(row, now)

(***************************************************************************)
(* C27, checked on SpecCache.                                              *)
(***************************************************************************)
\* the rows of a cache table whose cache_expires is unset
Unexpiring(table) == {row \in table : row.cache_expires = None}

\* C27: a row whose cache_expires is unset is removed by no sweep and by no
\* other step; it leaves the table only when a write for its key replaces
\* it.  Every verification_cache row the import writes is such a row.
C27_UnsetExpiryNeverSwept ==
    [][/\ \A row \in verification_cache : row.cache_expires = None
       /\ \A row \in Unexpiring(cve_cache) :
            \/ row \in cve_cache'
            \/ ret'.op = "cache_cve" /\ ret'.arg.cve_id = row.cve_id
       /\ \A row \in Unexpiring(verification_cache) :
            \/ row \in verification_cache'
            \/ ret'.op = "migrate_verification"
                    /\ ret'.arg = row.threat_id]_vars

\* a sweep after the instant of the import has removed an expired cve_cache
\* row and left the imported verification row, whose expiry is unset
C27_Witness ==
    /\ ret.op = "cleanup_expired"
    /\ ret.deleted # {}
    /\ \E row \in verification_cache :
            /\ row.cache_expires = None
            /\ FromIsoFormat(row.verified_at) < now

(***************************************************************************)
(* C29, checked on SpecQuery.                                              *)
(***************************************************************************)
\* C29: get_threats_affecting_crown_jewels with an empty label list raises
\* nothing and returns the empty list, whatever is stored.
C29_EmptyLabelListReturnsEmpty ==
    (ret.op = "get_threats_affecting_crown_jewels"
            /\ ret.crown_jewels = <<>>) =>
        ~ret.raised /\ ret.val = <<>>

(***************************************************************************)
(* C30, checked on SpecImport.                                             *)
(***************************************************************************)
\* C30: a threats snapshot that is a plain array of threat objects is
\* imported as the `threats` array of a document is: every valid element is
\* stored and the reported count is the number of valid elements.
C30_PlainArrayImported ==
    (/\ ret.op = "migrate_json_cache"
     /\ ret.snapshot.threats # None
     /\ ret.snapshot.threats[1].form = "array"
     /\ \A i \in 1..Len(ret.snapshot.threats[1].entries) :
            ret.snapshot.threats[1].entries[i] # None) =>
        LET doc == ret.snapshot.threats[1]
        IN  /\ \A i \in Convertible(doc) :
                    ThreatRows(threats, doc.entries[i][1].id[1]) # {}
            /\ ret.threats = Some(Cardinality(Convertible(doc)))

(***************************************************************************)
(* C22 and C25, checked on SpecWriters.                                    *)
(***************************************************************************)
\* session s has a call in progress of this operation at this position
At(s, op, pc) ==
    sessions[s].pc = pc /\ sessions[s].pc # "idle" /\ sessions[s].op = op

\* the call of session s ends with this step by raising
GivesUp(s) ==
    /\ sessions[s].pc # "idle"
    /\ sessions'[s].pc = "idle"
    /\ ret'.raised

\* C22: calls of upsert_threat for one id that overlap take effect one after
\* the other: each commit changes the committed row and index entry exactly
\* as the whole call would on the state committed by then, and a call that
\* gives up waiting for the lock changes nothing.  A get_threat that overlaps
\* them never waits and never raises; what it returns is nothing or the row
\* committed when it read, never the row of a transaction still open.
C22_WritersSerialize ==
    [][\A s \in Sessions :
        /\ (At(s, "upsert_threat", "commit") /\ sessions'[s].pc = "return")
            => /\ threats' =
                    Upserted(Store, sessions[s].arg, sessions[s].at).threats
               /\ threats_fts' =
                    Upserted(Store, sessions[s].arg,
                             sessions[s].at).threats_fts
        /\ GivesUp(s) =>
                /\ sessions[s].op = "upsert_threat"
                /\ UNCHANGED <<threats, threats_fts>>
        /\ At(s, "get_threat", "execute") =>
                /\ ~Blocked(s)
                /\ sessions'[s].pc = "return" =>
                        sessions'[s].rows = ThreatRows(threats,
                                                       sessions[s].arg)
        /\ (At(s, "get_threat", "return") /\ sessions'[s].pc = "idle")
            => /\ ~ret'.raised
               /\ ret'.val \in
                    {None} \cup
                    {Some(RowToThreat(r, now)) : r \in sessions[s].rows}]_vars

\* one writer has updated the stored row in a transaction it has not yet
\* committed, the other waits for the write lock, and the reader has read the
\* committed row, which is not the row of the open transaction
C22_Witness ==
    /\ At("w1", "upsert_threat", "commit")
    /\ At("w2", "upsert_threat", "execute")
    /\ At("r", "get_threat", "return")
    /\ sessions["r"].rows # {}
    /\ sessions["r"].rows = ThreatRows(threats, <<"t", "1">>)
    /\ sessions["r"].rows #
            ThreatRows(sessions["w1"].txn[1].threats, <<"t", "1">>)

\* the index entries of the row a session is updating, in the view of its
\* transaction
EntriesOfUpdatedRow(s) ==
    {e \in sessions[s].txn[1].threats_fts :
        e.rowid = sessions[s].new[1].rowid}

\* C25: while an existing row is updated the trigger removes the entry of
\* the old column values first and adds the entry of the new values after
\* it: before the trigger the index holds the old entry, between its two
\* statements no entry, after it the new entry only, and never two entries
\* for the row.
C25_OldEntryRemovedFirst ==
    \A s \in Sessions :
        (sessions[s].pc \in {"threats_au", "commit"}
                /\ sessions[s].old # None) =>
            /\ Cardinality(EntriesOfUpdatedRow(s)) <= 1
            /\ (sessions[s].pc = "threats_au" /\ sessions[s].stmt = 1)
                => EntriesOfUpdatedRow(s) = {FtsEntry(sessions[s].old[1])}
            /\ (sessions[s].pc = "threats_au" /\ sessions[s].stmt = 2)
                => EntriesOfUpdatedRow(s) = {}
            /\ sessions[s].pc = "commit"
                => EntriesOfUpdatedRow(s) = {FtsEntry(sessions[s].new[1])}

\* an update that changes an indexed column is between the two statements of
\* its trigger
C25_Witness ==
    \E s \in Sessions :
        /\ sessions[s].pc = "threats_au"
        /\ sessions[s].stmt = 2
        /\ FtsEntry(sessions[s].old[1]) # FtsEntry(sessions[s].new[1])

(***************************************************************************)
(* C28, checked on SpecStats.                                              *)
(***************************************************************************)
\* C28: in every result of get_threat_stats the five priority counts add up
\* to at most total_count, and kev_count and high_epss_count are at most
\* total_count, also when other connections commit between its queries.
C28_StatsAreOneSnapshot ==
    ret.op = "get_threat_stats" =>
        /\ ret.val.critical_count + ret.val.high_count
                + ret.val.medium_count + ret.val.low_count
                + ret.val.watchlist_count <= ret.val.total_count
        /\ ret.val.kev_count <= ret.val.total_count
        /\ ret.val.high_epss_count <= ret.val.total_count

====
